---------------------------- MODULE Spec2Model ----------------------------
(***************************************************************************)
(* A model of the stun-client crate: the transaction-multiplexed client    *)
(* of src/src/client.rs (binding_request, run_message_receiver, Drop), the *)
(* mapping and filtering probe sequences of                                *)
(* src/src/nat_behavior_discovery.rs, and the message codec of             *)
(* src/src/message.rs, byte by byte.                                       *)
(*                                                                         *)
(* Callers run binding_request concurrently with the client's one receive  *)
(* task.  Every await of the code is a step boundary; the code between two *)
(* awaits (a mutex critical section included) is one atomic step.          *)
(*                                                                         *)
(* The network is unreliable UDP: a response to a request that was handed  *)
(* to the socket may arrive at any later time, any number of times, and    *)
(* unsolicited or unparseable datagrams may arrive at any time.            *)
(***************************************************************************)
EXTENDS Integers, Sequences, FiniteSets, TLC

(* ------------------------------ bounds -------------------------------- *)

\* The number of binding_request calls the callers of the client may start.
MaxCalls == 2

(* --------------------------- program constants ------------------------ *)

MAGIC_COOKIE == 554869826
FAMILY_IPV4 == 1
FAMILY_IPV6 == 2
ATTR_XOR_MAPPED_ADDRESS == 32
ATTR_CHANGE_REQUEST == 3
CHANGE_REQUEST_IP_FLAG == 4
CHANGE_REQUEST_PORT_FLAG == 2
\* mpsc::channel(1): the buffer of a response sink.
SinkBuffer == 1
HEADER_BYTE_SIZE == 20

(* ------------------------------ bytes ---------------------------------- *)

RECURSIVE BitXor(_, _)
\* The bitwise exclusive or of two naturals (Rust's ^ on u8 and u16).
BitXor(a, b) ==
    IF a = 0 THEN b
    ELSE IF b = 0 THEN a
    ELSE (((a % 2) + (b % 2)) % 2) + 2 * BitXor(a \div 2, b \div 2)

RECURSIVE BitOr(_, _)
\* The bitwise or of two naturals (Rust's |=).
BitOr(a, b) ==
    IF a = 0 THEN b
    ELSE IF b = 0 THEN a
    ELSE (IF (a % 2) + (b % 2) > 0 THEN 1 ELSE 0) + 2 * BitOr(a \div 2, b \div 2)

\* u32::to_be_bytes
U32ToBeBytes(v) ==
    << (v \div 16777216) % 256, (v \div 65536) % 256, (v \div 256) % 256, v % 256 >>

\* u16::from_be_bytes
U16FromBeBytes(hi, lo) == hi * 256 + lo

\* seq[from..] of Rust, 0-based: the bytes from index `from` on.
SliceFrom(seq, from) == SubSeq(seq, from + 1, Len(seq))

\* A zip that leaves the bytes as they stand.
XorZipIdentity(bytes, key) ==
    [i \in 1..(IF Len(bytes) < Len(key) THEN Len(bytes) ELSE Len(key)) |-> bytes[i]]

\* iter().zip(key).map(|(b, m)| b ^ m): as long as the shorter of the two.
XorZip(bytes, key) ==
    [i \in 1..(IF Len(bytes) < Len(key) THEN Len(bytes) ELSE Len(key)) |->
        BitXor(bytes[i], key[i])]

(* ----------------------------- messages -------------------------------- *)

\* The callers of binding_request: two tasks that share one Client.
Callers == {"A", "B"}

\* Transaction ids.  Message::new draws 12 random bytes; the model numbers
\* the draws, so two calls never share an id.  The ids cover the calls of the
\* callers and the three probes of a discovery procedure (NumProbes).
\* StrayTid is an id no call of this client ever drew.
NumProbes == 3
Tids == 1..(IF MaxCalls < NumProbes THEN NumProbes ELSE MaxCalls)
StrayTid == (IF MaxCalls < NumProbes THEN NumProbes ELSE MaxCalls) + 1

\* The 12 bytes of a transaction id.
TransactionIdBytes(t) == [i \in 1..12 |-> IF i = 12 THEN t ELSE 0]

Classes == {"Request", "Indication", "SuccessResponse", "ErrorResponse"}

NoAttrs == << >>

\* Attribute::generate_change_request_value
generate_change_request_value(change_ip, change_port) ==
    LET v0 == 0
        v1 == IF change_ip THEN BitOr(v0, CHANGE_REQUEST_IP_FLAG) ELSE v0
        v2 == IF change_port THEN BitOr(v1, CHANGE_REQUEST_PORT_FLAG) ELSE v1
    IN  U32ToBeBytes(v2)

\* A HashMap<Attribute, Vec<u8>> with one entry.
OneAttr(kind, value) == [k \in {kind} |-> value]

\* Message::get_raw_attr_value: an Option, {} for None and {value} for Some.
get_raw_attr_value(msg, attr) ==
    IF attr \in DOMAIN msg.attrs THEN {msg.attrs[attr]} ELSE {}

NoAddr == [ip |-> << >>, port |-> 0]

\* The call did not return: an index or a slice start beyond the end of a
\* Vec<u8> aborts the task with a panic.
Panic == [ip |-> << -1 >>, port |-> -1]

\* bytes_to_ip_addr: the address bytes, or << >> for None; b[0]..b[3], or
\* b[0]..b[15], panic when b is shorter.
bytes_to_ip_addr(family, b) ==
    IF family = FAMILY_IPV4
    THEN IF Len(b) < 4 THEN Panic.ip ELSE SubSeq(b, 1, 4)
    ELSE IF family = FAMILY_IPV6
    THEN IF Len(b) < 16 THEN Panic.ip ELSE SubSeq(b, 1, 16)
    ELSE << >>

\* Attribute::get_xor_mapped_address: Some(SocketAddr), NoAddr for None, or
\* Panic when attr_value[1], [2], [3] or [4..] is out of range.
get_xor_mapped_address(msg) ==
    LET opt == get_raw_attr_value(msg, ATTR_XOR_MAPPED_ADDRESS) IN
    IF opt = {} THEN NoAddr
    ELSE IF Len(CHOOSE v \in opt : TRUE) < 4 THEN Panic
    ELSE
        LET attr_value == CHOOSE v \in opt : TRUE
            family == attr_value[2]
            mc_bytes == U32ToBeBytes(MAGIC_COOKIE)
            port == BitXor(U16FromBeBytes(attr_value[3], attr_value[4]),
                           U16FromBeBytes(mc_bytes[1], mc_bytes[2]))
            encoded_ip == SliceFrom(attr_value, 4)
            ip_addr == IF family = FAMILY_IPV4
                       THEN bytes_to_ip_addr(family, XorZip(encoded_ip, mc_bytes))
                       ELSE bytes_to_ip_addr(family,
                               XorZip(encoded_ip, mc_bytes \o TransactionIdBytes(msg.tid)))
        IN  IF family \notin {FAMILY_IPV4, FAMILY_IPV6} THEN NoAddr
            ELSE IF ip_addr = Panic.ip THEN Panic
            ELSE [ip |-> ip_addr, port |-> port]

\* A parsed Message: its header's transaction id and class, its attributes.
Msg(t, cl, attrs) == [tid |-> t, class |-> cl, attrs |-> attrs]
NoMsg == Msg(0, "None", NoAttrs)

\* Result<Message, STUNClientError>
Ok(m) == [kind |-> "Ok", msg |-> m]
Err(e) == [kind |-> e, msg |-> NoMsg]
NoResult == [kind |-> "None", msg |-> NoMsg]
\* The receive task found no sink for the message it parsed (tx is None).
Unsolicited == [kind |-> "Unsolicited", msg |-> NoMsg]


(* ------------------------------ datagrams ------------------------------ *)

\* What the socket can hand to recv_from: a datagram of `len` bytes which,
\* when long enough to hold a header, carries the message `msg`.
Datagram(m) == [len |-> HEADER_BYTE_SIZE, msg |-> m]
\* The 12-byte datagram of the unparseable-reply scenario.
Garbage == [len |-> 12, msg |-> NoMsg]

\* Message::from_raw on a received datagram.
ParseDatagram(d) ==
    IF d.len < HEADER_BYTE_SIZE THEN Err("ParseError") ELSE Ok(d.msg)

\* The attribute sets a server may put in a response: none, or an
\* XOR-MAPPED-ADDRESS with the value bytes 00 01 A1 47 E1 12 A4 43.
XmaIPv4 == << 0, 1, 161, 71, 225, 18, 164, 67 >>
ResponseAttrs == { NoAttrs, OneAttr(ATTR_XOR_MAPPED_ADDRESS, XmaIPv4) }

(* ------------------------------- state --------------------------------- *)

VARIABLES
    pc,            \* caller -> where it is in binding_request
    cur,           \* caller -> msg.get_transaction_id() of its call
    req,           \* caller -> the stun_addr and attrs of its call
    res,           \* caller -> what its last binding_request returned
    nextTid,       \* the next transaction id Message::new draws
    transactions,  \* the keys of Client.transactions; key t maps to the Sender of sink t
    chan,          \* sink t -> the results queued in its channel
    sent,          \* the datagrams handed to the socket by send_to
    running,       \* Client.running
    stopTask,      \* the task Drop spawns to send on stop_tx
    stopq,         \* the number of messages queued in the stop channel
    rxpc,          \* where the receive task is
    rxEvent,       \* the result the receive task is delivering
    rxSnap,        \* the sinks it looked up: tx, or transactions_unlocked
    rxTodo,        \* the sinks of rxSnap it has still to deliver to
    rxCur,         \* the sink whose send it is parked on (0: none)
    fpc,           \* where check_nat_filtering_behavior is
    fxma,          \* its xor_mapped_addr
    ftest,         \* its t1_res, t2_res, t3_res so far
    fres,          \* what it returned
    mpc,           \* where check_nat_mapping_behavior is
    mother,        \* its other_addr
    mresult,       \* its result, filled in test by test
    mtest,         \* its t1_res, t2_res, t3_res so far
    mres,          \* what it returned
    cmode,         \* the codec function under study ("off": none)
    cmsg,          \* a Message handed to to_raw
    cbuf,          \* a buffer handed to from_raw
    cenc,          \* what to_raw returned
    cdec,          \* what from_raw returned
    cxin,          \* a Message handed to get_xor_mapped_address
    cxma           \* what get_xor_mapped_address returned

callerVars == << pc, cur, req, res, nextTid >>
clientVars == << transactions, chan, sent >>
dropVars == << running, stopTask, stopq >>
rxVars == << rxpc, rxEvent, rxSnap, rxTodo, rxCur >>
filterVars == << fpc, fxma, ftest, fres >>
mapVars == << mpc, mother, mresult, mtest, mres >>
codecVars == << cmode, cmsg, cbuf, cenc, cdec, cxin, cxma >>
\* What the client itself never touches.
besideVars == << filterVars, mapVars, codecVars >>
vars == << callerVars, clientVars, dropVars, rxVars, besideVars >>

NoReq == [addr |-> "none", attrs |-> NoAttrs]
NoFilterResult == [kind |-> "None", filtering_type |-> "Unknown", xor_mapped_addr |-> NoAddr]

\* Result<NATMappingTypeResult, STUNClientError>; `feature` is the String of
\* a NotSupportedError.
OkM(result) ==
    [kind |-> "Ok", feature |-> "", mapping_type |-> result.mapping_type,
     test1_xor_mapped_addr |-> result.test1_xor_mapped_addr,
     test2_xor_mapped_addr |-> result.test2_xor_mapped_addr,
     test3_xor_mapped_addr |-> result.test3_xor_mapped_addr]
ErrM(e, feature) ==
    [kind |-> e, feature |-> feature, mapping_type |-> "Unknown",
     test1_xor_mapped_addr |-> NoAddr, test2_xor_mapped_addr |-> NoAddr,
     test3_xor_mapped_addr |-> NoAddr]
NoMapResult == ErrM("None", "")

\* `result` as check_nat_mapping_behavior first builds it.
EmptyMappingResult ==
    [mapping_type |-> "Unknown", test1_xor_mapped_addr |-> NoAddr,
     test2_xor_mapped_addr |-> NoAddr, test3_xor_mapped_addr |-> NoAddr]

\* A Message of the codec: its Header and its Option<HashMap<Attribute, Vec<u8>>>.
Header(method, class, length, transaction_id) ==
    [method |-> method, class |-> class, length |-> length,
     transaction_id |-> transaction_id]
None == [some |-> FALSE, map |-> << >>]
Some(map) == [some |-> TRUE, map |-> map]
Message(header, attributes) == [header |-> header, attributes |-> attributes]
NoMessage == Message(Header(<< "None", 0 >>, << "None", 0 >>, 0, << >>), None)

\* Result<Message, STUNClientError> of the codec.
OkMessage(m) == [kind |-> "Ok", msg |-> m]
ParseError == [kind |-> "ParseError", msg |-> NoMessage]
NoDecoded == [kind |-> "None", msg |-> NoMessage]

\* The client after Client::new, no call made and no probe begun.
InitClient ==
    /\ pc = [c \in Callers |-> "idle"]
    /\ cur = [c \in Callers |-> 0]
    /\ req = [c \in Callers |-> NoReq]
    /\ res = [c \in Callers |-> NoResult]
    /\ nextTid = 1
    /\ transactions = {}
    /\ chan = [t \in Tids |-> << >>]
    /\ sent = {}
    /\ running = TRUE
    /\ stopTask = "none"
    /\ stopq = 0
    /\ rxpc = "select"
    /\ rxEvent = NoResult
    /\ rxSnap = {}
    /\ rxTodo = {}
    /\ rxCur = 0
    /\ fpc = "off"
    /\ fxma = NoAddr
    /\ ftest = << >>
    /\ fres = NoFilterResult
    /\ mpc = "off"
    /\ mother = NoAddr
    /\ mresult = EmptyMappingResult
    /\ mtest = << >>
    /\ mres = NoMapResult

\* No codec function is under study.
InitCodecOff ==
    /\ cmode = "off"
    /\ cmsg = NoMessage
    /\ cbuf = << >>
    /\ cenc = << >>
    /\ cdec = NoDecoded
    /\ cxin = NoMsg
    /\ cxma = NoAddr

Init == InitClient /\ InitCodecOff

(* ------------------------- the transaction table ----------------------- *)

\* A binding_request that does not register its sink before it sends.
TableInsertMissing(m, t) == m

\* m.insert(msg.get_transaction_id(), tx)
TableInsert(m, t) == m \cup {t}

\* m.remove(&msg.get_transaction_id())
TableRemove(m, t) == m \ {t}

\* A lookup that ignores the transaction id and takes any registered sink.
TableGetAny(m, t) == IF m = {} THEN {} ELSE {CHOOSE x \in m : TRUE}

\* transactions.get(&msg.get_transaction_id()).map(|v| v.clone()): the sink
\* to deliver to, {} for None.
TableGet(m, t) == IF t \in m THEN {t} ELSE {}

\* A broadcast that reaches one registered sink only.
TableSnapshotOne(m) == IF m = {} THEN {} ELSE {CHOOSE x \in m : TRUE}

\* t.clone(): the sinks a broadcast delivers to.
TableSnapshot(m) == m

\* The Receiver of sink t lives from mpsc::channel(1) until its call returns.
RxAlive(t) == \E c \in Callers : cur[c] = t /\ pc[c] \in {"send", "await"}

\* Some Sender of sink t exists: the table's, or a clone the receive task holds.
SinkHasSender(t) ==
    \/ t \in transactions
    \/ rxpc \in {"deliver", "flush"} /\ t \in rxTodo

(* --------------------------- binding_request --------------------------- *)

\* Message::new, mpsc::channel(1) and the insert under the lock.
BindingRequestInsert(c, stun_addr, attrs) ==
    /\ pc[c] \in {"idle", "done"}
    /\ running
    /\ nextTid \in Tids
    /\ pc' = [pc EXCEPT ![c] = "send"]
    /\ cur' = [cur EXCEPT ![c] = nextTid]
    /\ req' = [req EXCEPT ![c] = [addr |-> stun_addr, attrs |-> attrs]]
    /\ res' = [res EXCEPT ![c] = NoResult]
    /\ nextTid' = nextTid + 1
    /\ transactions' = TableInsert(transactions, nextTid)
    /\ UNCHANGED << chan, sent >>

\* The request datagram of caller c's call; seq numbers the datagrams of one call.
RequestDatagram(c) ==
    [tid |-> cur[c], addr |-> req[c].addr, attrs |-> req[c].attrs,
     seq |-> Cardinality({d \in sent : d.tid = cur[c]})]

\* A binding_request that hands its datagram to the socket a second time.
BindingRequestSendToTwice(c) ==
    /\ pc[c] = "send"
    /\ sent' = sent \cup {RequestDatagram(c), [RequestDatagram(c) EXCEPT !.seq = @ + 1]}
    /\ pc' = [pc EXCEPT ![c] = "await"]
    /\ UNCHANGED << cur, req, res, nextTid, transactions, chan >>

\* socket.send_to(..).await returns Ok: the datagram was handed to the socket.
\* From here on the call polls its sink.
BindingRequestSendTo(c) ==
    /\ pc[c] = "send"
    /\ sent' = sent \cup {RequestDatagram(c)}
    /\ pc' = [pc EXCEPT ![c] = "await"]
    /\ UNCHANGED << cur, req, res, nextTid, transactions, chan >>

\* What binding_request leaves of the table when `?` returns early.
TableOnEarlyReturn(m, t) == m

\* send_to(...).await returns Err: map_err(IOError)? returns from the call.
BindingRequestSendErr(c) ==
    /\ pc[c] = "send"
    /\ pc' = [pc EXCEPT ![c] = "done"]
    /\ res' = [res EXCEPT ![c] = Err("IOError")]
    /\ transactions' = TableOnEarlyReturn(transactions, cur[c])
    /\ chan' = [chan EXCEPT ![cur[c]] = << >>]
    /\ UNCHANGED << cur, req, nextTid, sent >>

\* A binding_request that turns an ErrorResponse into an Err result.
BindingRequestRecvErrorClassIsErr(c) ==
    /\ pc[c] = "await"
    /\ chan[cur[c]] # << >>
    /\ pc' = [pc EXCEPT ![c] = "done"]
    /\ res' = [res EXCEPT ![c] =
                 IF Head(chan[cur[c]]).msg.class = "ErrorResponse"
                 THEN Err("Unknown")
                 ELSE Head(chan[cur[c]])]
    /\ transactions' = TableRemove(transactions, cur[c])
    /\ chan' = [chan EXCEPT ![cur[c]] = << >>]
    /\ UNCHANGED << cur, req, nextTid, sent >>

\* rx.next() yields Some(res) before the timeout: remove under the lock, return res.
BindingRequestRecv(c) ==
    /\ pc[c] = "await"
    /\ chan[cur[c]] # << >>
    /\ pc' = [pc EXCEPT ![c] = "done"]
    /\ res' = [res EXCEPT ![c] = Head(chan[cur[c]])]
    /\ transactions' = TableRemove(transactions, cur[c])
    /\ chan' = [chan EXCEPT ![cur[c]] = << >>]
    /\ UNCHANGED << cur, req, nextTid, sent >>

\* An await of the sink that has no timeout.
BindingRequestNoTimeout(c) ==
    /\ pc[c] = "await"
    /\ FALSE
    /\ UNCHANGED << callerVars, clientVars >>

\* future::timeout(...).await with nothing queued: the timeout elapses
\* (TimeoutError), or the stream has ended (Unknown); `?` returns either.
AwaitNoEvent(t) == IF SinkHasSender(t) THEN Err("TimeoutError") ELSE Err("Unknown")

BindingRequestTimeout(c) ==
    /\ pc[c] = "await"
    /\ chan[cur[c]] = << >>
    /\ pc' = [pc EXCEPT ![c] = "done"]
    /\ res' = [res EXCEPT ![c] = AwaitNoEvent(cur[c])]
    /\ transactions' = TableOnEarlyReturn(transactions, cur[c])
    /\ UNCHANGED << cur, req, nextTid, chan, sent >>

(* ------------------------- run_message_receiver ------------------------ *)

\* while running.load(Ordering::Relaxed): the next iteration, or the end of
\* the task.
LoopTop == IF running THEN "select" ELSE "exited"

\* The datagrams recv_from may return: a response (of any class, with any of
\* the attribute sets) to a request that was sent, however late and however
\* often; one whose transaction id this client never drew; garbage.
Arrivable ==
    {Datagram(Msg(d.tid, cl, at)) : d \in sent, cl \in Classes, at \in ResponseAttrs}
    \cup {Datagram(Msg(StrayTid, "SuccessResponse", NoAttrs)), Garbage}

\* The sinks the receive task delivers a result to.
DeliverTo(r) ==
    IF r.kind = "Ok"
    THEN TableGet(transactions, r.msg.tid)
    ELSE TableSnapshot(transactions)

\* The receive task takes up result r: deliver it, or go round the loop.
ReceiverTakeUp(r) ==
    LET to == DeliverTo(r) IN
    /\ rxSnap' = to
    /\ rxTodo' = to
    /\ IF to = {}
       THEN rxpc' = LoopTop /\ rxEvent' = (IF r.kind = "Ok" THEN Unsolicited ELSE NoResult)
       ELSE rxpc' = "deliver" /\ rxEvent' = r

\* select! yields Event::Socket(Ok(..)): parse the datagram, look up the sink.
ReceiverSocketRecv(d) ==
    /\ rxpc = "select"
    /\ ReceiverTakeUp(ParseDatagram(d))
    /\ UNCHANGED << rxCur, callerVars, clientVars, dropVars, besideVars >>

\* A receive task that ends on an I/O error of the socket.
ReceiverSocketErrorExits ==
    /\ rxpc = "select"
    /\ rxpc' = "exited"
    /\ rxEvent' = NoResult /\ rxSnap' = {} /\ rxTodo' = {}
    /\ UNCHANGED << rxCur, callerVars, clientVars, dropVars, besideVars >>

\* select! yields Event::Socket(Err(e)): broadcast IOError.
ReceiverSocketError ==
    /\ rxpc = "select"
    /\ ReceiverTakeUp(Err("IOError"))
    /\ UNCHANGED << rxCur, callerVars, clientVars, dropVars, besideVars >>

\* select! yields Event::Stop: return.
ReceiverStop ==
    /\ rxpc = "select"
    /\ stopq > 0
    /\ rxpc' = "exited"
    /\ stopq' = stopq - 1
    /\ UNCHANGED << rxEvent, rxSnap, rxTodo, rxCur, running, stopTask, callerVars, clientVars, besideVars >>

\* The receive task is done with sink t: the next sink, or round the loop.
ReceiverNext(t) ==
    /\ rxTodo' = rxTodo \ {t}
    /\ rxCur' = 0
    /\ IF rxTodo \ {t} = {}
       THEN rxpc' = LoopTop /\ rxEvent' = NoResult /\ rxSnap' = {}
       ELSE rxpc' = "deliver" /\ UNCHANGED << rxEvent, rxSnap >>

\* tx.send(..).await on a clone of sink t's Sender: Disconnected when the
\* Receiver is gone; else the result is queued, and the task parks in the flush
\* when the queue is over the buffer.
ReceiverSend(t) ==
    /\ rxpc = "deliver"
    /\ t \in rxTodo
    /\ IF ~RxAlive(t)
       THEN ReceiverNext(t) /\ UNCHANGED chan
       ELSE /\ chan' = [chan EXCEPT ![t] = Append(chan[t], rxEvent)]
            /\ IF Len(chan[t]) + 1 > SinkBuffer
               THEN rxpc' = "flush" /\ rxCur' = t /\ UNCHANGED << rxEvent, rxSnap, rxTodo >>
               ELSE ReceiverNext(t)
    /\ UNCHANGED << transactions, sent, callerVars, dropVars, besideVars >>

\* A parked send that resumes only when the Receiver takes a message, and
\* waits on when the Receiver was dropped.
ReceiverFlushNeedsReceiver ==
    /\ rxpc = "flush"
    /\ RxAlive(rxCur) /\ Len(chan[rxCur]) <= SinkBuffer
    /\ ReceiverNext(rxCur)
    /\ UNCHANGED << callerVars, clientVars, dropVars, besideVars >>

\* The parked send resumes once the Receiver took a message or was dropped.
ReceiverFlush ==
    /\ rxpc = "flush"
    /\ ~RxAlive(rxCur) \/ Len(chan[rxCur]) <= SinkBuffer
    /\ ReceiverNext(rxCur)
    /\ UNCHANGED << callerVars, clientVars, dropVars, besideVars >>

(* -------------------------------- Drop --------------------------------- *)

\* impl Drop for Client: store false, spawn the task that sends the stop signal.
\* binding_request borrows the Client, so no call is in progress.
Drop ==
    /\ running
    /\ \A c \in Callers : pc[c] \in {"idle", "done"}
    /\ running' = FALSE
    /\ stopTask' = "spawned"
    /\ UNCHANGED << stopq, callerVars, clientVars, rxVars, besideVars >>

\* A Drop whose stop signal is never sent.
DropStopSendLost ==
    /\ stopTask = "spawned"
    /\ stopTask' = "done"
    /\ UNCHANGED << stopq, running, callerVars, clientVars, rxVars, besideVars >>

\* tx.send(true).await.ok() in the spawned task.
DropStopSend ==
    /\ stopTask = "spawned"
    /\ stopTask' = "done"
    /\ stopq' = IF rxpc = "exited" THEN stopq ELSE stopq + 1
    /\ UNCHANGED << running, callerVars, clientVars, rxVars, besideVars >>

\* The holders of the Arc<UdpSocket>: the Client, and the receive task that
\* `socket` was moved into.
SocketHolders ==
    (IF running THEN {"client"} ELSE {}) \cup (IF rxpc # "exited" THEN {"receiver"} ELSE {})

(* ------------------------ the transactions mutex ----------------------- *)

\* Whether binding_request owns a MutexGuard of `transactions` while it is
\* suspended at point p. The guard of the insert lives in the block that ends
\* before send_to(..).await ("send"); the timeout's await ("await") comes
\* before the block of the remove.
CallerHoldsGuard(p) ==
    CASE p = "send" -> FALSE
      [] p = "await" -> FALSE
      [] OTHER -> FALSE

\* A receive task whose guard lives on into the sends to the sinks.
ReceiverHoldsGuardInSend(p) ==
    CASE p = "select" -> FALSE
      [] p \in {"deliver", "flush"} -> TRUE
      [] OTHER -> FALSE

\* Whether the receive task owns a MutexGuard while it is suspended at p: in
\* the select! no section is open; the lookup's and the snapshots' guards
\* live in blocks that end before the first tx.send(..).await.
ReceiverHoldsGuard(p) ==
    CASE p = "select" -> FALSE
      [] p \in {"deliver", "flush"} -> FALSE
      [] OTHER -> FALSE

\* The tasks that own a MutexGuard of `transactions` while suspended.
MutexHolders ==
    {c \in Callers : CallerHoldsGuard(pc[c])}
    \cup (IF ReceiverHoldsGuard(rxpc) THEN {"receiver"} ELSE {})

(* -------------------- check_nat_filtering_behavior --------------------- *)

\* The task that runs the discovery procedure on the client.
Prober == "A"

\* Result<NATFilteringTypeResult, STUNClientError>
OkF(type, addr) == [kind |-> "Ok", filtering_type |-> type, xor_mapped_addr |-> addr]
ErrF(e) == [kind |-> e, filtering_type |-> "Unknown", xor_mapped_addr |-> NoAddr]

\* The attrs of Test 2 and Test 3: one CHANGE-REQUEST attribute.
ChangeRequestAttrs(change_ip, change_port) ==
    OneAttr(ATTR_CHANGE_REQUEST, generate_change_request_value(change_ip, change_port))

\* The procedure returns r.
FilteringReturn(r) ==
    /\ fpc' = "done"
    /\ fres' = r
    /\ UNCHANGED << fxma, callerVars, clientVars >>

\* Test 1: client.binding_request(&stun_addr, None) begins.
FilteringTest1 ==
    /\ fpc = "off"
    /\ fpc' = "test1"
    /\ BindingRequestInsert(Prober, "primary", NoAttrs)
    /\ UNCHANGED << fxma, ftest, fres, dropVars, rxVars, mapVars, codecVars >>

\* What the procedure does with Test 1's result: "return" with the error, or
\* "next" with the address to record.
AfterTest1(t1_res) ==
    IF t1_res.kind # "Ok" THEN [do |-> "return", err |-> t1_res.kind, addr |-> NoAddr]
    ELSE IF get_xor_mapped_address(t1_res.msg) = NoAddr
    THEN [do |-> "return", err |-> "NotSupportedError", addr |-> NoAddr]
    ELSE [do |-> "next", err |-> "None", addr |-> get_xor_mapped_address(t1_res.msg)]

\* Test 1 returned: `?` on the result and on XOR-MAPPED-ADDRESS, then Test 2
\* begins with CHANGE-REQUEST (change IP, change port).
FilteringTest1Done ==
    /\ fpc = "test1"
    /\ pc[Prober] = "done"
    /\ ftest' = << res[Prober] >>
    /\ LET a == AfterTest1(res[Prober]) IN
       IF a.do = "return"
       THEN FilteringReturn(ErrF(a.err))
       ELSE /\ fxma' = a.addr
            /\ fpc' = "test2"
            /\ BindingRequestInsert(Prober, "primary", ChangeRequestAttrs(TRUE, TRUE))
            /\ UNCHANGED fres
    /\ UNCHANGED << dropVars, rxVars, mapVars, codecVars >>

\* A Test 2 whose timeout is returned as an error like any other.
AfterTest2TimeoutIsError(t2_res, addr) ==
    IF t2_res.kind = "Ok"
    THEN [do |-> "return", result |-> OkF("EndpointIndependent", addr)]
    ELSE [do |-> "return", result |-> ErrF(t2_res.kind)]

\* match t2_res: "return" a result, or "next" to run Test 3.
AfterTest2(t2_res, addr) ==
    IF t2_res.kind = "Ok"
    THEN [do |-> "return", result |-> OkF("EndpointIndependent", addr)]
    ELSE IF t2_res.kind = "TimeoutError"
    THEN [do |-> "next", result |-> NoFilterResult]
    ELSE [do |-> "return", result |-> ErrF(t2_res.kind)]

\* A procedure that sends Test 3 to the alternate endpoint.
FilteringTest2DoneToAlternate ==
    /\ fpc = "test2"
    /\ pc[Prober] = "done"
    /\ ftest' = Append(ftest, res[Prober])
    /\ LET a == AfterTest2(res[Prober], fxma) IN
       IF a.do = "return"
       THEN FilteringReturn(a.result)
       ELSE /\ fpc' = "test3"
            /\ BindingRequestInsert(Prober, "alternate", ChangeRequestAttrs(FALSE, TRUE))
            /\ UNCHANGED << fxma, fres >>
    /\ UNCHANGED << dropVars, rxVars, mapVars, codecVars >>

\* Test 2 returned; on a timeout Test 3 begins with CHANGE-REQUEST (change port).
FilteringTest2Done ==
    /\ fpc = "test2"
    /\ pc[Prober] = "done"
    /\ ftest' = Append(ftest, res[Prober])
    /\ LET a == AfterTest2(res[Prober], fxma) IN
       IF a.do = "return"
       THEN FilteringReturn(a.result)
       ELSE /\ fpc' = "test3"
            /\ BindingRequestInsert(Prober, "primary", ChangeRequestAttrs(FALSE, TRUE))
            /\ UNCHANGED << fxma, fres >>
    /\ UNCHANGED << dropVars, rxVars, mapVars, codecVars >>

\* A Test 3 with its two classifications exchanged.
AfterTest3Swapped(t3_res, addr) ==
    IF t3_res.kind = "Ok" THEN OkF("AddressAndPortDependent", addr)
    ELSE IF t3_res.kind = "TimeoutError" THEN OkF("AddressDependent", addr)
    ELSE ErrF(t3_res.kind)

\* match t3_res: the result the procedure returns.
AfterTest3(t3_res, addr) ==
    IF t3_res.kind = "Ok" THEN OkF("AddressDependent", addr)
    ELSE IF t3_res.kind = "TimeoutError" THEN OkF("AddressAndPortDependent", addr)
    ELSE ErrF(t3_res.kind)

\* Test 3 returned.
FilteringTest3Done ==
    /\ fpc = "test3"
    /\ pc[Prober] = "done"
    /\ ftest' = Append(ftest, res[Prober])
    /\ FilteringReturn(AfterTest3(res[Prober], fxma))
    /\ UNCHANGED << dropVars, rxVars, mapVars, codecVars >>

(* --------------------- check_nat_mapping_behavior ---------------------- *)

ATTR_OTHER_ADDRESS == 32812

\* Attribute::decode_simple_address_attribute: family, port and address as
\* they stand in the value; NoAddr for None; Panic when attr_value[1], [2],
\* [3] or [4..] is out of range.
decode_simple_address_attribute(msg, attr) ==
    LET opt == get_raw_attr_value(msg, attr) IN
    IF opt = {} THEN NoAddr
    ELSE IF Len(CHOOSE v \in opt : TRUE) < 4 THEN Panic
    ELSE
        LET attr_value == CHOOSE v \in opt : TRUE
            family == attr_value[2]
            port == U16FromBeBytes(attr_value[3], attr_value[4])
            ip_addr == bytes_to_ip_addr(family, SliceFrom(attr_value, 4))
        IN  IF ip_addr = << >> THEN NoAddr
            ELSE IF ip_addr = Panic.ip THEN Panic
            ELSE [ip |-> ip_addr, port |-> port]

\* Attribute::get_other_address
get_other_address(msg) == decode_simple_address_attribute(msg, ATTR_OTHER_ADDRESS)

\* The server address the procedure is given, stun_addr.
PrimaryAddr == [ip |-> << 198, 51, 100, 1 >>, port |-> 3478]

\* datalink::interfaces(): the addresses of the host's interfaces, here
\* 192.0.0.1 and ::1.
LocalIps ==
    { << 192, 0, 0, 1 >>, << 0, 0, 0, 0, 0, 0, 0, 0, 0, 0, 0, 0, 0, 0, 0, 1 >> }

\* XOR-MAPPED-ADDRESS values a server may send: 192.0.0.1, 192.0.0.6 and
\* 192.0.0.7 at port 32853; and, for a response to transaction id 1, the IPv6
\* addresses ::1 and 2000::1.
XmaValues ==
    { XmaIPv4,
      << 0, 1, 161, 71, 225, 18, 164, 68 >>,
      << 0, 1, 161, 71, 225, 18, 164, 69 >>,
      << 0, 2, 161, 71, 33, 18, 164, 66, 0, 0, 0, 0, 0, 0, 0, 0, 0, 0, 0, 0 >>,
      << 0, 2, 161, 71, 1, 18, 164, 66, 0, 0, 0, 0, 0, 0, 0, 0, 0, 0, 0, 0 >> }

\* An OTHER-ADDRESS value: 198.51.100.2:3479.
OtherAddressValue == << 0, 1, 13, 151, 198, 51, 100, 2 >>

\* The attributes of a response that carries the XOR-MAPPED-ADDRESS of xo
\* and the OTHER-ADDRESS of oo, each an Option ({} or {value}).
AttrsOf(xo, oo) ==
    [k \in (IF xo = {} THEN {} ELSE {ATTR_XOR_MAPPED_ADDRESS})
            \cup (IF oo = {} THEN {} ELSE {ATTR_OTHER_ADDRESS}) |->
        IF k = ATTR_XOR_MAPPED_ADDRESS
        THEN CHOOSE v \in xo : TRUE
        ELSE CHOOSE v \in oo : TRUE]

\* The attribute sets of the responses to a mapping probe: with or without
\* either attribute.
MappingResponseAttrs ==
    { AttrsOf(xo, oo) : xo \in {{}} \cup {{v} : v \in XmaValues},
                        oo \in {{}, {OtherAddressValue}} }

\* The datagrams recv_from may return while the mapping procedure runs.
MappingArrivable ==
    {Datagram(Msg(d.tid, "SuccessResponse", at)) : d \in sent, at \in MappingResponseAttrs}
    \cup {Garbage}

\* A comparison with the interface addresses that never finds one equal.
IsLocalNever(ip) == FALSE

\* for local_ip in local_ips: an interface address of the same family equal
\* to the mapped address.
IsLocal(ip) == \E local_ip \in LocalIps : Len(local_ip) = Len(ip) /\ local_ip = ip

\* A missing attribute reported as a ParseError.
MissingAttrAsParseError(name) == ErrM("ParseError", name)

\* ok_or(STUNClientError::NotSupportedError(String::from(name)))?
MissingAttr(name) == ErrM("NotSupportedError", name)

\* The mapping type of Test 3 with its two outcomes exchanged.
ClassifyTest3Swapped(t2_addr, t3_addr) ==
    IF t2_addr = t3_addr THEN "AddressAndPortDependent" ELSE "AddressDependent"

\* The mapping type after Test 3.
ClassifyTest3(t2_addr, t3_addr) ==
    IF t2_addr = t3_addr THEN "AddressDependent" ELSE "AddressAndPortDependent"

\* The procedure returns r.
MappingReturn(r) ==
    /\ mpc' = "done"
    /\ mres' = r
    /\ UNCHANGED << callerVars, clientVars >>

\* Test 1: client.binding_request(&stun_addr, None) begins.
MappingTest1 ==
    /\ mpc = "off"
    /\ mpc' = "test1"
    /\ BindingRequestInsert(Prober, PrimaryAddr, NoAttrs)
    /\ UNCHANGED << mother, mresult, mtest, mres, dropVars, rxVars, filterVars, codecVars >>

\* What the procedure does with Test 1's result: "return" r, or "next" with
\* other_addr and the mapped address.
AfterMappingTest1(t1_res) ==
    LET other_addr == get_other_address(t1_res.msg)
        xma == get_xor_mapped_address(t1_res.msg)
        result == [EmptyMappingResult EXCEPT !.test1_xor_mapped_addr = xma]
        NoNAT == OkM([result EXCEPT !.mapping_type = "NoNAT"])
    IN  IF t1_res.kind # "Ok"
        THEN [do |-> "return", r |-> ErrM(t1_res.kind, ""), other |-> NoAddr, result |-> EmptyMappingResult]
        ELSE IF other_addr = NoAddr
        THEN [do |-> "return", r |-> MissingAttr("OTHER-ADDRESS"), other |-> NoAddr, result |-> EmptyMappingResult]
        ELSE IF xma = NoAddr
        THEN [do |-> "return", r |-> MissingAttr("XOR-MAPPED-ADDRESS"), other |-> other_addr, result |-> EmptyMappingResult]
        ELSE IF Len(xma.ip) = 4
        THEN IF IsLocal(xma.ip)
             THEN [do |-> "return", r |-> NoNAT, other |-> other_addr, result |-> result]
             ELSE [do |-> "next", r |-> NoMapResult, other |-> other_addr, result |-> result]
        ELSE IF IsLocal(xma.ip)
             THEN [do |-> "return", r |-> NoNAT, other |-> other_addr, result |-> result]
             ELSE [do |-> "return", r |-> ErrM("ParseError", ""), other |-> other_addr, result |-> result]

\* Test 1 returned: the two attributes, the comparison with the interface
\* addresses, then Test 2 begins, to other_addr.
MappingTest1Done ==
    /\ mpc = "test1"
    /\ pc[Prober] = "done"
    /\ mtest' = << res[Prober] >>
    /\ LET a == AfterMappingTest1(res[Prober]) IN
       /\ mother' = a.other
       /\ mresult' = a.result
       /\ IF a.do = "return"
          THEN MappingReturn(a.r)
          ELSE /\ mpc' = "test2"
               /\ BindingRequestInsert(Prober, a.other, NoAttrs)
               /\ UNCHANGED mres
    /\ UNCHANGED << dropVars, rxVars, filterVars, codecVars >>

\* A mapping Test 2 whose timeout is taken as a classification.
AfterMappingTest2TimeoutClassifies(t2_res, result0) ==
    LET xma == get_xor_mapped_address(t2_res.msg)
        result == [result0 EXCEPT !.test2_xor_mapped_addr = xma]
    IN  IF t2_res.kind = "TimeoutError"
        THEN [do |-> "return", r |-> OkM([result0 EXCEPT !.mapping_type = "AddressDependent"]),
              result |-> result0]
        ELSE IF t2_res.kind # "Ok"
        THEN [do |-> "return", r |-> ErrM(t2_res.kind, ""), result |-> result0]
        ELSE IF xma = NoAddr
        THEN [do |-> "return", r |-> MissingAttr("XOR-MAPPED-ADDRESS"), result |-> result0]
        ELSE IF result.test1_xor_mapped_addr = result.test2_xor_mapped_addr
        THEN [do |-> "return", r |-> OkM([result EXCEPT !.mapping_type = "EndpointIndependent"]),
              result |-> result]
        ELSE [do |-> "next", r |-> NoMapResult, result |-> result]

\* What the procedure does with Test 2's result.
AfterMappingTest2(t2_res, result0) ==
    LET xma == get_xor_mapped_address(t2_res.msg)
        result == [result0 EXCEPT !.test2_xor_mapped_addr = xma]
    IN  IF t2_res.kind # "Ok"
        THEN [do |-> "return", r |-> ErrM(t2_res.kind, ""), result |-> result0]
        ELSE IF xma = NoAddr
        THEN [do |-> "return", r |-> MissingAttr("XOR-MAPPED-ADDRESS"), result |-> result0]
        ELSE IF result.test1_xor_mapped_addr = result.test2_xor_mapped_addr
        THEN [do |-> "return", r |-> OkM([result EXCEPT !.mapping_type = "EndpointIndependent"]),
              result |-> result]
        ELSE [do |-> "next", r |-> NoMapResult, result |-> result]

\* stun_addr with set_port(other_addr.port()).
Test3Addr(stun_addr, other_addr) == [stun_addr EXCEPT !.port = other_addr.port]

\* Test 2 returned; when the mapped addresses differ Test 3 begins, to the
\* primary IP and the port of other_addr.
MappingTest2Done ==
    /\ mpc = "test2"
    /\ pc[Prober] = "done"
    /\ mtest' = Append(mtest, res[Prober])
    /\ LET a == AfterMappingTest2(res[Prober], mresult) IN
       /\ mresult' = a.result
       /\ IF a.do = "return"
          THEN MappingReturn(a.r)
          ELSE /\ mpc' = "test3"
               /\ BindingRequestInsert(Prober, Test3Addr(PrimaryAddr, mother), NoAttrs)
               /\ UNCHANGED mres
    /\ UNCHANGED << mother, dropVars, rxVars, filterVars, codecVars >>

\* A Test 3 that classifies and does not record its mapped address.
AfterMappingTest3NotRecorded(t3_res, result0) ==
    LET xma == get_xor_mapped_address(t3_res.msg)
    IN  IF t3_res.kind # "Ok" THEN ErrM(t3_res.kind, "")
        ELSE IF xma = NoAddr THEN MissingAttr("XOR-MAPPED-ADDRESS")
        ELSE OkM([result0 EXCEPT !.mapping_type =
                     ClassifyTest3(result0.test2_xor_mapped_addr, xma)])

\* What the procedure returns after Test 3.
AfterMappingTest3(t3_res, result0) ==
    LET xma == get_xor_mapped_address(t3_res.msg)
        result == [result0 EXCEPT !.test3_xor_mapped_addr = xma]
    IN  IF t3_res.kind # "Ok" THEN ErrM(t3_res.kind, "")
        ELSE IF xma = NoAddr THEN MissingAttr("XOR-MAPPED-ADDRESS")
        ELSE OkM([result EXCEPT !.mapping_type =
                     ClassifyTest3(result.test2_xor_mapped_addr, result.test3_xor_mapped_addr)])

\* Test 3 returned.
MappingTest3Done ==
    /\ mpc = "test3"
    /\ pc[Prober] = "done"
    /\ mtest' = Append(mtest, res[Prober])
    /\ MappingReturn(AfterMappingTest3(res[Prober], mresult))
    /\ UNCHANGED << mother, mresult, dropVars, rxVars, filterVars, codecVars >>

(* ------------------------------ the codec ------------------------------ *)

METHOD_BINDING == 1
CLASS_REQUEST == 0
CLASS_INDICATION == 16
CLASS_SUCCESS_RESPONSE == 256
CLASS_ERROR_RESPONSE == 272
ATTR_MAPPED_ADDRESS == 1
ATTR_ERROR_CODE == 9
ATTR_SOFTWARE == 32802
ATTR_RESPONSE_ORIGIN == 32811
\* message_type & 0x3EEF and message_type & 0x0110
METHOD_MASK == 16111
CLASS_MASK == 272

RECURSIVE BitAnd(_, _)
\* The bitwise and of two naturals (Rust's & on u16).
BitAnd(a, b) ==
    IF a = 0 \/ b = 0 THEN 0
    ELSE ((a % 2) * (b % 2)) + 2 * BitAnd(a \div 2, b \div 2)

\* u16::to_be_bytes; `as u16` keeps the low 16 bits.
U16ToBeBytes(v) == << (v \div 256) % 256, v % 256 >>

\* The enums Method, Class and Attribute: a variant name and, for Unknown,
\* its u16.
Binding == << "Binding", 0 >>
UnknownKind(code) == << "Unknown", code >>

\* Method::from_u16
Method_from_u16(method) ==
    IF method = METHOD_BINDING THEN Binding ELSE UnknownKind(method)

\* Method::to_u16
Method_to_u16(method) ==
    IF method[1] = "Binding" THEN METHOD_BINDING ELSE method[2]

\* Class::from_u16
Class_from_u16(class) ==
    CASE class = CLASS_REQUEST -> << "Request", 0 >>
      [] class = CLASS_INDICATION -> << "Indication", 0 >>
      [] class = CLASS_SUCCESS_RESPONSE -> << "SuccessResponse", 0 >>
      [] class = CLASS_ERROR_RESPONSE -> << "ErrorResponse", 0 >>
      [] OTHER -> UnknownKind(class)

\* Class::to_u16
Class_to_u16(class) ==
    CASE class[1] = "Request" -> CLASS_REQUEST
      [] class[1] = "Indication" -> CLASS_INDICATION
      [] class[1] = "SuccessResponse" -> CLASS_SUCCESS_RESPONSE
      [] class[1] = "ErrorResponse" -> CLASS_ERROR_RESPONSE
      [] OTHER -> class[2]

\* Attribute::from_u16
Attribute_from_u16(attribute) ==
    CASE attribute = ATTR_MAPPED_ADDRESS -> << "MappedAddress", 0 >>
      [] attribute = ATTR_XOR_MAPPED_ADDRESS -> << "XORMappedAddress", 0 >>
      [] attribute = ATTR_SOFTWARE -> << "Software", 0 >>
      [] attribute = ATTR_OTHER_ADDRESS -> << "OtherAddress", 0 >>
      [] attribute = ATTR_CHANGE_REQUEST -> << "ChangeRequest", 0 >>
      [] attribute = ATTR_RESPONSE_ORIGIN -> << "ResponseOrigin", 0 >>
      [] attribute = ATTR_ERROR_CODE -> << "ErrorCode", 0 >>
      [] OTHER -> UnknownKind(attribute)

\* Attribute::to_u16
Attribute_to_u16(attribute) ==
    CASE attribute[1] = "MappedAddress" -> ATTR_MAPPED_ADDRESS
      [] attribute[1] = "XORMappedAddress" -> ATTR_XOR_MAPPED_ADDRESS
      [] attribute[1] = "Software" -> ATTR_SOFTWARE
      [] attribute[1] = "OtherAddress" -> ATTR_OTHER_ADDRESS
      [] attribute[1] = "ChangeRequest" -> ATTR_CHANGE_REQUEST
      [] attribute[1] = "ResponseOrigin" -> ATTR_RESPONSE_ORIGIN
      [] attribute[1] = "ErrorCode" -> ATTR_ERROR_CODE
      [] OTHER -> attribute[2]

\* Header::message_type
message_type(header) ==
    BitOr(Class_to_u16(header.class), Method_to_u16(header.method))

\* A decode_method with the method mask 0x3DDE.
decode_method3DDE(mtype) == Method_from_u16(BitAnd(mtype, 15838))

\* Header::decode_method
decode_method(mtype) == Method_from_u16(BitAnd(mtype, METHOD_MASK))

\* Header::decode_class
decode_class(mtype) == Class_from_u16(BitAnd(mtype, CLASS_MASK))

\* Header::to_raw
Header_to_raw(header) ==
    U16ToBeBytes(message_type(header)) \o U16ToBeBytes(header.length)
        \o U32ToBeBytes(MAGIC_COOKIE) \o header.transaction_id

\* Header::from_raw: Ok with the header, or ParseError.  The magic cookie is
\* skipped, not compared.
Header_from_raw(buf) ==
    IF Len(buf) < HEADER_BYTE_SIZE THEN [kind |-> "ParseError", header |-> NoMessage.header]
    ELSE
        LET mtype == U16FromBeBytes(buf[1], buf[2])
            length == U16FromBeBytes(buf[3], buf[4])
            rest == SliceFrom(buf, 4)
        IN  [kind |-> "Ok",
             header |-> Header(decode_method(mtype), decode_class(mtype), length,
                               SliceFrom(rest, 4))]

RECURSIVE AttrsByteSize(_, _)
\* The sum over the entries of attr_type_byte_size + attr_length_byte_size +
\* the value's length in Message::new.
AttrsByteSize(map, keys) ==
    IF keys = {} THEN 0
    ELSE LET k == CHOOSE x \in keys : TRUE
         IN  2 + 2 + Len(map[k]) + AttrsByteSize(map, keys \ {k})

\* Message::new, with the transaction id it drew.
Message_new(method, class, attributes, transaction_id) ==
    LET length == IF attributes.some
                  THEN AttrsByteSize(attributes.map, DOMAIN attributes.map)
                  ELSE 0
    IN  Message(Header(method, class, length, transaction_id), attributes)

\* attributes.iter(): a HashMap yields its entries in an order of its own.
IterOrders(map) ==
    { o \in [1..Cardinality(DOMAIN map) -> DOMAIN map] :
        \A i, j \in 1..Cardinality(DOMAIN map) : i # j => o[i] # o[j] }

RECURSIVE AttrsToRaw(_, _)
\* The loop of Message::to_raw over the entries in the order `order`.
AttrsToRaw(map, order) ==
    IF order = << >> THEN << >>
    ELSE LET k == Head(order)
             v == map[k]
         IN  U16ToBeBytes(Attribute_to_u16(k)) \o U16ToBeBytes(Len(v)) \o v
                 \o AttrsToRaw(map, Tail(order))

\* Message::to_raw, the attributes iterated in the order `order`.
Message_to_raw(msg, order) ==
    Header_to_raw(msg.header)
        \o (IF msg.attributes.some THEN AttrsToRaw(msg.attributes.map, order) ELSE << >>)

\* attributes.insert(attribute_type, value)
MapInsert(map, k, v) == [x \in DOMAIN map \cup {k} |-> IF x = k THEN v ELSE map[x]]

RECURSIVE DecodeAttrsLoop(_, _)
\* The while loop of Message::decode_attrs.
DecodeAttrsLoop(attrs_buf, attributes) ==
    IF attrs_buf = << >> THEN [kind |-> "Ok", map |-> attributes]
    ELSE IF Len(attrs_buf) < 4 THEN [kind |-> "ParseError", map |-> << >>]
    ELSE
        LET attribute_type == Attribute_from_u16(U16FromBeBytes(attrs_buf[1], attrs_buf[2]))
            length == U16FromBeBytes(attrs_buf[3], attrs_buf[4])
            rest == SliceFrom(attrs_buf, 4)
        IN  IF Len(rest) < length THEN [kind |-> "ParseError", map |-> << >>]
            ELSE DecodeAttrsLoop(SliceFrom(rest, length),
                                 MapInsert(attributes, attribute_type, SubSeq(rest, 1, length)))

\* Message::decode_attrs
decode_attrs(attrs_buf) ==
    IF attrs_buf = << >> THEN [kind |-> "ParseError", map |-> << >>]
    ELSE DecodeAttrsLoop(attrs_buf, << >>)

\* A from_raw that takes a buffer too short for a header, or an attribute
\* section that does not decode, as a message without attributes.
Message_from_rawLenient(buf) ==
    IF Len(buf) < HEADER_BYTE_SIZE THEN OkMessage(NoMessage)
    ELSE
        LET h == Header_from_raw(SubSeq(buf, 1, HEADER_BYTE_SIZE))
            a == decode_attrs(SliceFrom(buf, HEADER_BYTE_SIZE))
        IN  IF Len(buf) > HEADER_BYTE_SIZE /\ a.kind = "Ok"
            THEN OkMessage(Message(h.header, Some(a.map)))
            ELSE OkMessage(Message(h.header, None))

\* Message::from_raw
Message_from_raw(buf) ==
    IF Len(buf) < HEADER_BYTE_SIZE THEN ParseError
    ELSE
        LET h == Header_from_raw(SubSeq(buf, 1, HEADER_BYTE_SIZE)) IN
        IF h.kind # "Ok" THEN ParseError
        ELSE IF Len(buf) > HEADER_BYTE_SIZE
        THEN LET a == decode_attrs(SliceFrom(buf, HEADER_BYTE_SIZE)) IN
             IF a.kind # "Ok" THEN ParseError
             ELSE OkMessage(Message(h.header, Some(a.map)))
        ELSE OkMessage(Message(h.header, None))

(* --------------------------- the client alone -------------------------- *)

otherThanCaller == << dropVars, rxVars, besideVars >>

Next ==
    \/ \E c \in Callers :
          /\ nextTid <= MaxCalls
          /\ BindingRequestInsert(c, "primary", NoAttrs)
          /\ UNCHANGED otherThanCaller
    \/ \E c \in Callers : BindingRequestSendTo(c) /\ UNCHANGED otherThanCaller
    \/ \E c \in Callers : BindingRequestSendErr(c) /\ UNCHANGED otherThanCaller
    \/ \E c \in Callers : BindingRequestRecv(c) /\ UNCHANGED otherThanCaller
    \/ \E c \in Callers : BindingRequestTimeout(c) /\ UNCHANGED otherThanCaller
    \/ \E d \in Arrivable : ReceiverSocketRecv(d)
    \/ ReceiverSocketError
    \/ ReceiverStop
    \/ \E t \in Tids : ReceiverSend(t)
    \/ ReceiverFlush
    \/ Drop
    \/ DropStopSend

Spec == Init /\ [][Next]_vars


(* ------------------ the filtering procedure on the client -------------- *)

NextFiltering ==
    \/ FilteringTest1
    \/ FilteringTest1Done
    \/ FilteringTest2Done
    \/ FilteringTest3Done
    \/ BindingRequestSendTo(Prober) /\ UNCHANGED otherThanCaller
    \/ BindingRequestSendErr(Prober) /\ UNCHANGED otherThanCaller
    \/ BindingRequestRecv(Prober) /\ UNCHANGED otherThanCaller
    \/ BindingRequestTimeout(Prober) /\ UNCHANGED otherThanCaller
    \/ \E d \in Arrivable : ReceiverSocketRecv(d)
    \/ ReceiverSocketError
    \/ \E t \in Tids : ReceiverSend(t)
    \/ ReceiverFlush

SpecFiltering == Init /\ [][NextFiltering]_vars

(* ------------------- the mapping procedure on the client --------------- *)

NextMapping ==
    \/ MappingTest1
    \/ MappingTest1Done
    \/ MappingTest2Done
    \/ MappingTest3Done
    \/ BindingRequestSendTo(Prober) /\ UNCHANGED otherThanCaller
    \/ BindingRequestSendErr(Prober) /\ UNCHANGED otherThanCaller
    \/ BindingRequestRecv(Prober) /\ UNCHANGED otherThanCaller
    \/ BindingRequestTimeout(Prober) /\ UNCHANGED otherThanCaller
    \/ \E d \in MappingArrivable : ReceiverSocketRecv(d)
    \/ ReceiverSocketError
    \/ \E t \in Tids : ReceiverSend(t)
    \/ ReceiverFlush

SpecMapping == Init /\ [][NextMapping]_vars

(* --------------- either discovery procedure on the client -------------- *)

\* The client runs one of the two procedures, whichever is called.
NextDiscovery ==
    \/ mpc = "off" /\ FilteringTest1
    \/ FilteringTest1Done
    \/ FilteringTest2Done
    \/ FilteringTest3Done
    \/ fpc = "off" /\ MappingTest1
    \/ MappingTest1Done
    \/ MappingTest2Done
    \/ MappingTest3Done
    \/ BindingRequestSendTo(Prober) /\ UNCHANGED otherThanCaller
    \/ BindingRequestSendErr(Prober) /\ UNCHANGED otherThanCaller
    \/ BindingRequestRecv(Prober) /\ UNCHANGED otherThanCaller
    \/ BindingRequestTimeout(Prober) /\ UNCHANGED otherThanCaller
    \/ fpc # "off" /\ \E d \in Arrivable : ReceiverSocketRecv(d)
    \/ mpc # "off" /\ \E d \in MappingArrivable : ReceiverSocketRecv(d)
    \/ ReceiverSocketError
    \/ \E t \in Tids : ReceiverSend(t)
    \/ ReceiverFlush

SpecDiscovery == Init /\ [][NextDiscovery]_vars

(* ------------------- two Clients over one socket ----------------------- *)

\* Client::from_socket called twice with the same Arc<UdpSocket>: caller c
\* owns the Client built for it and calls binding_request on it once. Each
\* Client has its own transactions table and its own receive task; both tasks
\* read the one socket, and a datagram goes to the task that reads it.
\* `transactions` holds the entries of both tables, `sent` what the socket was
\* handed; the receive-task variables are those of the task that read last,
\* the other task waiting in its select.

\* The transactions table of the Client of caller k.
TableOf(k) == {t \in transactions : t = cur[k]}

\* The receive task of the Client of caller k reads datagram d: from_raw,
\* then the lookup or the snapshot in that Client's table.
SharedSocketRecv(k, d) ==
    LET r == ParseDatagram(d)
        to == IF r.kind = "Ok"
              THEN TableGet(TableOf(k), r.msg.tid)
              ELSE TableSnapshot(TableOf(k))
    IN  /\ rxpc = "select"
        /\ rxSnap' = to
        /\ rxTodo' = to
        /\ IF to = {}
           THEN rxpc' = LoopTop /\ rxEvent' = (IF r.kind = "Ok" THEN Unsolicited ELSE NoResult)
           ELSE rxpc' = "deliver" /\ rxEvent' = r
        /\ UNCHANGED << rxCur, callerVars, clientVars, dropVars, besideVars >>

NextShared ==
    \/ \E c \in Callers :
          /\ pc[c] = "idle"
          /\ BindingRequestInsert(c, "primary", NoAttrs)
          /\ UNCHANGED otherThanCaller
    \/ \E c \in Callers : BindingRequestSendTo(c) /\ UNCHANGED otherThanCaller
    \/ \E c \in Callers : BindingRequestSendErr(c) /\ UNCHANGED otherThanCaller
    \/ \E c \in Callers : BindingRequestRecv(c) /\ UNCHANGED otherThanCaller
    \/ \E c \in Callers : BindingRequestTimeout(c) /\ UNCHANGED otherThanCaller
    \/ \E k \in Callers : \E d \in Arrivable : SharedSocketRecv(k, d)
    \/ \E t \in Tids : ReceiverSend(t)
    \/ ReceiverFlush

SpecShared == Init /\ [][NextShared]_vars

(* ---------- the filtering procedure, datagrams as the socket has them --- *)

\* What recv_from may return while the procedure runs: the bytes of a Binding
\* success response (type 01 01), with or without XOR-MAPPED-ADDRESS, to a
\* request that was sent, its magic-cookie bytes right or zero, and the address
\* it came from; or 12 bytes from the primary address. A response to a request that carried
\* CHANGE-REQUEST comes from the server's alternate IP and port or from its
\* alternate port; a response to any other request comes from anywhere.
WireArrivable ==
    UNION { { [src |-> a,
               buf |-> << 1, 1 >> \o U16ToBeBytes(Len(sec)) \o U32ToBeBytes(ck)
                          \o TransactionIdBytes(d.tid) \o sec] :
                a \in (IF d.attrs = NoAttrs
                       THEN {"primary", "alternate", "alternate-port"}
                       ELSE {"alternate", "alternate-port"}),
                ck \in {MAGIC_COOKIE, 0},
                sec \in {<< >>, << 0, 32, 0, 8 >> \o XmaIPv4} } : d \in sent }
    \cup { [src |-> "primary", buf |-> [i \in 1..12 |-> 0]] }

\* A receive task that takes a datagram only from the address the request
\* of its transaction went to.
WireSocketRecvFromRequestAddr(w) ==
    LET dec == Message_from_raw(w.buf)
        m == dec.msg
        r == IF dec.kind = "Ok" /\ w.src = "primary"
             THEN Ok(Msg(m.header.transaction_id[12], m.header.class[1],
                         IF m.attributes.some
                         THEN [k \in {Attribute_to_u16(a) : a \in DOMAIN m.attributes.map} |->
                                  m.attributes.map[Attribute_from_u16(k)]]
                         ELSE NoAttrs))
             ELSE Err("ParseError")
    IN  /\ rxpc = "select"
        /\ cbuf' = w.buf
        /\ cdec' = dec
        /\ ReceiverTakeUp(r)
        /\ UNCHANGED << rxCur, callerVars, clientVars, dropVars, filterVars, mapVars,
                        cmode, cmsg, cenc, cxin, cxma >>

\* select! yields Event::Socket(Ok((n, addr))) with buf[..n] = w.buf and
\* addr = w.src: Message::from_raw(&buf[..n]), then the lookup by
\* msg.get_transaction_id(); addr is not looked at. The message the sink is
\* handed has the id, the class and the attributes of the decoded one.
WireSocketRecv(w) ==
    LET dec == Message_from_raw(w.buf)
        m == dec.msg
        r == IF dec.kind = "Ok"
             THEN Ok(Msg(m.header.transaction_id[12], m.header.class[1],
                         IF m.attributes.some
                         THEN [k \in {Attribute_to_u16(a) : a \in DOMAIN m.attributes.map} |->
                                  m.attributes.map[Attribute_from_u16(k)]]
                         ELSE NoAttrs))
             ELSE Err("ParseError")
    IN  /\ rxpc = "select"
        /\ cbuf' = w.buf
        /\ cdec' = dec
        /\ ReceiverTakeUp(r)
        /\ UNCHANGED << rxCur, callerVars, clientVars, dropVars, filterVars, mapVars,
                        cmode, cmsg, cenc, cxin, cxma >>

NextWire ==
    \/ FilteringTest1
    \/ FilteringTest1Done
    \/ FilteringTest2Done
    \/ FilteringTest3Done
    \/ BindingRequestSendTo(Prober) /\ UNCHANGED otherThanCaller
    \/ BindingRequestSendErr(Prober) /\ UNCHANGED otherThanCaller
    \/ BindingRequestRecv(Prober) /\ UNCHANGED otherThanCaller
    \/ BindingRequestTimeout(Prober) /\ UNCHANGED otherThanCaller
    \/ \E w \in WireArrivable : WireSocketRecv(w)
    \/ ReceiverSocketError
    \/ \E t \in Tids : ReceiverSend(t)
    \/ ReceiverFlush

SpecWire == Init /\ [][NextWire]_vars

(* -------------------------- the codec's inputs ------------------------- *)

\* The transaction id of the messages handed to the codec.
CodecTransactionId == TransactionIdBytes(1)

\* u16 values of Method::Unknown: within the method mask, inside the class
\* mask, outside both, and METHOD_BINDING itself.
MethodCodes == { 0, 1, 2, 16, 256, 272, 16111, 16384 }
CodecMethods == {Binding} \cup {UnknownKind(k) : k \in MethodCodes}

\* The four classes of the protocol, and Class::Unknown.
NamedClasses ==
    { << "Request", 0 >>, << "Indication", 0 >>,
      << "SuccessResponse", 0 >>, << "ErrorResponse", 0 >> }
CodecClasses == NamedClasses \cup { UnknownKind(1), UnknownKind(512) }

\* Attribute kinds and the values they take: a CHANGE-REQUEST, a SOFTWARE of
\* one or of five bytes, an attribute of unknown code 0x1234 with no or two
\* value bytes.
CodecKinds == { << "ChangeRequest", 0 >>, << "Software", 0 >>, UnknownKind(4660) }
CodecValues(kind) ==
    CASE kind[1] = "ChangeRequest" -> { generate_change_request_value(TRUE, FALSE) }
      [] kind[1] = "Software" -> { << 97 >>, << 97, 98, 99, 100, 101 >> }
      [] OTHER -> { << >>, << 1, 2 >> }

\* The HashMaps over those kinds, the empty one included.
CodecMaps ==
    UNION { { f \in [S -> UNION {CodecValues(k) : k \in CodecKinds}] :
                \A k \in S : f[k] \in CodecValues(k) } : S \in SUBSET CodecKinds }

\* The messages Message::new can build from them.
CodecMessages ==
    { Message_new(me, cl, at, CodecTransactionId) :
        me \in CodecMethods, cl \in CodecClasses,
        at \in {None} \cup {Some(m) : m \in CodecMaps} }

\* The HashMap of a message's attributes (empty for None).
CodecAttributesOf(msg) == IF msg.attributes.some THEN msg.attributes.map ELSE << >>

\* The pad after a value of n bytes up to the next 4-byte boundary.
PadTo4(n) == (4 - (n % 4)) % 4
Zeros(n) == [i \in 1..n |-> 0]

RECURSIVE PaddedAttrs(_, _)
\* The attribute section as a peer following RFC 8489 writes it: each value
\* followed by its pad.
PaddedAttrs(map, order) ==
    IF order = << >> THEN << >>
    ELSE LET k == Head(order)
             v == map[k]
         IN  U16ToBeBytes(Attribute_to_u16(k)) \o U16ToBeBytes(Len(v)) \o v
                 \o Zeros(PadTo4(Len(v))) \o PaddedAttrs(map, Tail(order))

\* A message on the wire with padded attributes.
PaddedRaw(msg, order) == Header_to_raw(msg.header) \o PaddedAttrs(msg.attributes.map, order)

\* The buffers of padded messages with at least one attribute.
PaddedInputs ==
    UNION { { [msg |-> m, buf |-> PaddedRaw(m, o)] : o \in IterOrders(CodecAttributesOf(m)) } :
              m \in {x \in CodecMessages :
                        /\ x.attributes.some /\ DOMAIN x.attributes.map # {}
                        /\ x.header.method = Binding
                        /\ x.header.class = << "SuccessResponse", 0 >>} }

\* Received buffers: a header, whole attributes, and an end that is whole or
\* cut short.
RawHeader ==
    Header_to_raw(Header(Binding, << "SuccessResponse", 0 >>, 0, CodecTransactionId))
WholeAttrs == { << 0, 3, 0, 4, 0, 0, 0, 4 >>, << 128, 34, 0, 1, 97 >>, << 18, 52, 0, 0 >>,
                << 0, 32, 0, 8, 0, 1, 161, 71, 225, 18, 164, 67 >> }
WholeSections == {<< >>} \cup WholeAttrs \cup {a \o b : a, b \in WholeAttrs}
\* Fewer than 20 bytes.
ShortInputs == { SubSeq(RawHeader, 1, n) : n \in 0..(HEADER_BYTE_SIZE - 1) }
\* One to three bytes where an attribute's type and length are due.
PartialAttrHeaderInputs ==
    { RawHeader \o s \o SubSeq(a, 1, n) : s \in WholeSections, a \in WholeAttrs, n \in 1..3 }
\* An attribute whose declared length exceeds the value bytes that follow.
ShortValueInputs ==
    UNION { { RawHeader \o s \o SubSeq(a, 1, n) : n \in 4..(Len(a) - 1) } :
              s \in WholeSections, a \in WholeAttrs }
WholeInputs == { RawHeader \o s : s \in WholeSections }
RawInputs == ShortInputs \cup PartialAttrHeaderInputs \cup ShortValueInputs \cup WholeInputs

\* IPv4 XOR-MAPPED-ADDRESS values: reserved, family 0x01, xport, xaddress.
XmaIPv4Values ==
    { << 0, FAMILY_IPV4, ph, pl, a, b, c, d >> :
        ph \in {0, 161}, pl \in {71, 255}, a \in {0, 225}, b \in {18, 255},
        c \in {1, 164}, d \in {66, 67} }
\* Responses that carry one of them, under each transaction id.
XmaInputs ==
    { Msg(t, "SuccessResponse", OneAttr(ATTR_XOR_MAPPED_ADDRESS, v)) :
        t \in Tids, v \in XmaIPv4Values }

(* ------------------------- the codec, call by call --------------------- *)

\* Attribute::get_error_code: the variant ErrorCode::from picks for
\* attr_value[2] * 100 + attr_value[3] with the reason bytes (the inputs carry
\* ASCII, which from_utf8 takes as it is); "None" without the attribute; Panic
\* when attr_value[2], [3] or [4..] is out of range.
get_error_code(msg) ==
    LET opt == get_raw_attr_value(msg, ATTR_ERROR_CODE) IN
    IF opt = {} THEN [variant |-> "None", reason |-> << >>]
    ELSE IF Len(CHOOSE v \in opt : TRUE) < 4 THEN Panic
    ELSE
        LET attr_value == CHOOSE v \in opt : TRUE
            code == attr_value[3] * 100 + attr_value[4]
        IN  [variant |-> CASE code = 300 -> "TryAlternate"
                           [] code = 400 -> "BadRequest"
                           [] code = 401 -> "Unauthorized"
                           [] code = 420 -> "UnknownAttribute"
                           [] code = 438 -> "StaleNonce"
                           [] code = 500 -> "ServerError"
                           [] OTHER -> "Unknown",
             reason |-> SliceFrom(attr_value, 4)]

\* Buffers that hold a header with the right length field and one attribute
\* (MAPPED-ADDRESS, XOR-MAPPED-ADDRESS, ERROR-CODE, RESPONSE-ORIGIN or
\* OTHER-ADDRESS) whose value is the first n bytes, from none to all, of an
\* IPv4 address value, an IPv6 address value or an ERROR-CODE value (420 "no").
AttrInputs ==
    UNION { { Header_to_raw(Header(Binding, << "ErrorResponse", 0 >>, 4 + n, CodecTransactionId))
                 \o U16ToBeBytes(k) \o U16ToBeBytes(n) \o SubSeq(v, 1, n) :
              k \in {ATTR_MAPPED_ADDRESS, ATTR_XOR_MAPPED_ADDRESS, ATTR_ERROR_CODE,
                     ATTR_RESPONSE_ORIGIN, ATTR_OTHER_ADDRESS},
              n \in 0..Len(v) } :
            v \in { XmaIPv4,
                    << 0, FAMILY_IPV6, 161, 71 >> \o [i \in 1..16 |-> i],
                    << 0, 0, 4, 20, 110, 111 >> } }

\* A call of to_raw, of from_raw or of an attribute decoder is about to be
\* made on an input.
CodecInputs ==
    /\ cenc = << >>
    /\ cdec = NoDecoded
    /\ cxma = NoAddr
    /\ \/ /\ cmode = "msg"
          /\ cmsg \in CodecMessages
          /\ cbuf = << >>
          /\ cxin = NoMsg
       \/ /\ cmode = "padded"
          /\ \E p \in PaddedInputs : cmsg = p.msg /\ cbuf = p.buf
          /\ cxin = NoMsg
       \/ /\ cmode = "raw"
          /\ cmsg = NoMessage
          /\ cbuf \in RawInputs
          /\ cxin = NoMsg
       \/ /\ cmode = "xma"
          /\ cmsg = NoMessage
          /\ cbuf = << >>
          /\ cxin \in XmaInputs
       \/ /\ cmode = "attr"
          /\ cmsg = NoMessage
          /\ cbuf \in AttrInputs
          /\ cxin = NoMsg

InitCodec == InitClient /\ CodecInputs

codecFrame == << callerVars, clientVars, dropVars, rxVars, filterVars, mapVars >>

\* msg.to_raw()
CodecToRaw ==
    /\ cmode = "msg"
    /\ \E order \in IterOrders(CodecAttributesOf(cmsg)) :
          cenc' = Message_to_raw(cmsg, order)
    /\ cmode' = "encoded"
    /\ UNCHANGED << cmsg, cbuf, cdec, cxin, cxma, codecFrame >>

\* Message::from_raw(&msg.to_raw())
CodecFromRawEncoded ==
    /\ cmode = "encoded"
    /\ cdec' = Message_from_raw(cenc)
    /\ cmode' = "roundtrip"
    /\ UNCHANGED << cmsg, cbuf, cenc, cxin, cxma, codecFrame >>

\* Message::from_raw(buf) on a received buffer.
CodecFromRaw ==
    /\ cmode \in {"raw", "padded", "attr"}
    /\ cdec' = Message_from_raw(cbuf)
    /\ cmode' = (CASE cmode = "raw" -> "decoded"
                   [] cmode = "padded" -> "padded_decoded"
                   [] OTHER -> "attr_decoded")
    /\ UNCHANGED << cmsg, cbuf, cenc, cxin, cxma, codecFrame >>

\* Attribute::get_xor_mapped_address(&message)
CodecGetXorMappedAddress ==
    /\ cmode = "xma"
    /\ cxma' = get_xor_mapped_address(cxin)
    /\ cmode' = "xma_done"
    /\ UNCHANGED << cmsg, cbuf, cenc, cdec, cxin, codecFrame >>

\* One of the attribute decoders is called on the message from_raw accepted.
CodecGetAttribute ==
    /\ cmode = "attr_decoded"
    /\ cdec.kind = "Ok"
    /\ LET m == cdec.msg
           msg == Msg(m.header.transaction_id[12], m.header.class[1],
                      IF m.attributes.some
                      THEN [k \in {Attribute_to_u16(a) : a \in DOMAIN m.attributes.map} |->
                               m.attributes.map[Attribute_from_u16(k)]]
                      ELSE NoAttrs)
       IN  /\ cxin' = msg
           /\ cxma' \in { get_xor_mapped_address(msg),
                          decode_simple_address_attribute(msg, ATTR_MAPPED_ADDRESS),
                          get_other_address(msg),
                          decode_simple_address_attribute(msg, ATTR_RESPONSE_ORIGIN),
                          get_error_code(msg) }
    /\ cmode' = "attr_done"
    /\ UNCHANGED << cmsg, cbuf, cenc, cdec, codecFrame >>

NextCodec ==
    \/ CodecToRaw
    \/ CodecFromRawEncoded
    \/ CodecFromRaw
    \/ CodecGetXorMappedAddress
    \/ CodecGetAttribute

SpecCodec == InitCodec /\ [][NextCodec]_vars

(* ------------------------------ scheduling ----------------------------- *)

\* A step of caller c inside binding_request: send_to completes, or the await
\* of the sink under future::timeout ends with a result or with the timeout.
CallerProgress(c) ==
    /\ \/ BindingRequestSendTo(c)
       \/ BindingRequestSendErr(c)
       \/ BindingRequestRecv(c)
       \/ BindingRequestTimeout(c)
    /\ UNCHANGED otherThanCaller

\* The executor runs every task that can take a step, and the timer of
\* future::timeout fires; nothing makes a datagram arrive.
Fairness ==
    /\ \A c \in Callers : WF_vars(CallerProgress(c))
    /\ WF_vars(ReceiverStop)
    /\ WF_vars(\E t \in Tids : ReceiverSend(t))
    /\ WF_vars(ReceiverFlush)
    /\ WF_vars(DropStopSend)

SpecFair == Spec /\ Fairness


(* ------------------------------- claims -------------------------------- *)

\* The results queued in sink t.
Queued(t) == {chan[t][i] : i \in 1..Len(chan[t])}

\* Caller c is inside binding_request with its datagram handed to the socket.
Awaiting(c) == pc[c] = "await"

\* C1: with two binding_request calls outstanding, whatever the order in which
\* the receive task reads their responses, a call only ever returns, and its
\* sink only ever holds, a message that carries the call's own transaction id.
C1_OwnResponse ==
    /\ \A c \in Callers :
          (pc[c] = "done" /\ res[c].kind = "Ok") => res[c].msg.tid = cur[c]
    /\ \A t \in Tids : \A r \in Queued(t) : r.kind = "Ok" => r.msg.tid = t

\* A returned its own response while the older call of B, outstanding all
\* along, holds its own response in its sink.
C1_Witness ==
    /\ pc["A"] = "done" /\ res["A"].kind = "Ok" /\ res["A"].msg.tid = cur["A"]
    /\ pc["B"] = "await" /\ 0 < cur["B"] /\ cur["B"] < cur["A"]
    /\ chan[cur["B"]] # << >> /\ Head(chan[cur["B"]]).kind = "Ok"

\* C2: after binding_request has returned, on any exit path, the transaction
\* table holds no entry for the call's transaction id.
C2_NoEntryAfterReturn ==
    \A c \in Callers : pc[c] = "done" => cur[c] \notin transactions

\* C3: the sink is registered before the datagram is handed to the socket: a
\* response that the receive task reads while the call is outstanding after
\* its send, even before the call first polls its sink, is taken up for that
\* call's sink and queued there.
C3_ResponseAfterSendDelivered ==
    [][ \A c \in Callers :
          /\ \A d \in Arrivable :
                (Awaiting(c) /\ ParseDatagram(d).kind = "Ok" /\ d.msg.tid = cur[c]
                   /\ ReceiverSocketRecv(d))
                => (rxpc' = "deliver" /\ rxTodo' = {cur[c]} /\ rxEvent' = Ok(d.msg))
          /\ (Awaiting(c) /\ rxEvent.kind = "Ok" /\ ReceiverSend(cur[c]))
                => rxEvent \in {chan'[cur[c]][i] : i \in 1..Len(chan'[cur[c]])}
      ]_vars

\* A response sits in the sink of a call that has sent and not yet returned.
C3_Witness ==
    \E c \in Callers :
        /\ Awaiting(c)
        /\ chan[cur[c]] # << >>
        /\ Head(chan[cur[c]]).kind = "Ok"
        /\ Head(chan[cur[c]]).msg.tid = cur[c]

\* C4: every binding_request call terminates, and a call that ends its wait
\* with nothing in its sink returns TimeoutError.
C4_CallTerminates ==
    /\ \A c \in Callers : (pc[c] \in {"send", "await"}) ~> (pc[c] = "done")
    /\ [][ \A c \in Callers :
             (Awaiting(c) /\ chan[cur[c]] = << >> /\ pc'[c] = "done")
             => res'[c] = Err("TimeoutError") ]_vars

\* A call returned TimeoutError.
C4_Witness ==
    \E c \in Callers : pc[c] = "done" /\ res[c] = Err("TimeoutError")

\* C5: when the receive task reads a datagram that does not parse, it takes
\* every sink registered at that moment; when its broadcast is through, every
\* call of those that has not returned holds ParseError as the one result in
\* its sink; and a call with a result in its sink returns the first one, so
\* none of them waits for its timeout.
C5_ParseErrorBroadcast ==
    [][ /\ ReceiverSocketRecv(Garbage)
            => /\ rxSnap' = transactions /\ rxTodo' = transactions
               /\ transactions # {} => (rxpc' = "deliver" /\ rxEvent' = Err("ParseError"))
        /\ (rxEvent = Err("ParseError") /\ rxpc \in {"deliver", "flush"}
              /\ rxpc' \notin {"deliver", "flush"})
            => \A c \in Callers :
                  (cur[c] \in rxSnap /\ pc'[c] \in {"send", "await"})
                  => chan'[cur[c]] = << Err("ParseError") >>
        /\ \A c \in Callers :
              (Awaiting(c) /\ chan[cur[c]] # << >> /\ pc'[c] = "done")
              => res'[c] = Head(chan[cur[c]])
      ]_vars

\* The broadcast is through and both outstanding calls hold ParseError.
C5_Witness ==
    /\ rxpc = "select"
    /\ \A c \in Callers : Awaiting(c) /\ chan[cur[c]] = << Err("ParseError") >>

\* C6: a parsed datagram whose transaction id matches no registered sink is
\* dropped: the table, the sinks and the callers are left as they are, nothing
\* is taken up for delivery, and the receive task of a client that was not
\* dropped is back at reading the socket.
C6_UnsolicitedDropped ==
    [][ \A d \in Arrivable :
          (ParseDatagram(d).kind = "Ok" /\ d.msg.tid \notin transactions
             /\ ReceiverSocketRecv(d))
          => /\ UNCHANGED << transactions, chan, pc, res >>
             /\ rxTodo' = {}
             /\ rxpc' = (IF running THEN "select" ELSE "exited")
      ]_vars

\* The receive task dropped a message and reads on, a registered call waiting.
C6_Witness ==
    /\ rxpc = "select" /\ rxEvent = Unsolicited
    /\ \E c \in Callers : Awaiting(c) /\ cur[c] \in transactions /\ chan[cur[c]] = << >>

\* C7: when the send inside binding_request fails, the call returns IOError
\* and its transaction is no longer in the table.
C7_SendFailureDeregisters ==
    \A c \in Callers :
        (pc[c] = "done" /\ res[c] = Err("IOError") /\ ~ \E d \in sent : d.tid = cur[c])
        => cur[c] \notin transactions

\* C8: after the Client is dropped, the receive task eventually exits, and
\* then nothing holds the socket.
C8_ReceiverExitsAfterDrop ==
    (~ running) ~> (rxpc = "exited" /\ SocketHolders = {})

\* The Client was dropped and the receive task has exited.
C8_Witness == ~ running /\ rxpc = "exited"

\* No third binding_request was begun and no Test 3 datagram was sent.
NoTest3 ==
    /\ nextTid <= NumProbes
    /\ ~ \E d \in sent : d.attrs = OneAttr(ATTR_CHANGE_REQUEST, << 0, 0, 0, 2 >>)

\* C9: in check_nat_filtering_behavior, Test 2 carries CHANGE-REQUEST with
\* change-IP and change-port set; after Test 1 succeeded, a response to Test 2
\* gives EndpointIndependent with no Test 3, a TimeoutError leads on to Test 3,
\* and any other error is returned with no Test 3.
C9_Test2Outcome ==
    /\ fpc = "test2" =>
          req[Prober] = [addr |-> "primary",
                         attrs |-> OneAttr(ATTR_CHANGE_REQUEST, << 0, 0, 0, 6 >>)]
    /\ Len(ftest) >= 2 =>
          /\ ftest[1].kind = "Ok"
          /\ CASE ftest[2].kind = "Ok" ->
                    /\ fpc = "done"
                    /\ fres = OkF("EndpointIndependent", get_xor_mapped_address(ftest[1].msg))
                    /\ NoTest3
               [] ftest[2].kind = "TimeoutError" ->
                    /\ fpc \in {"test3", "done"}
                    /\ cur[Prober] = NumProbes
               [] OTHER ->
                    /\ fpc = "done"
                    /\ fres = ErrF(ftest[2].kind)
                    /\ NoTest3

\* Test 2 was answered and the procedure returned EndpointIndependent.
C9_Witness ==
    /\ Len(ftest) = 2 /\ ftest[2].kind = "Ok"
    /\ fpc = "done" /\ fres.filtering_type = "EndpointIndependent"

\* C10: in check_nat_filtering_behavior, Test 3 carries CHANGE-REQUEST with
\* change-port alone; a response gives AddressDependent, a TimeoutError gives
\* AddressAndPortDependent, any other error is returned; and an Ok result is
\* never Unknown and carries the XOR-MAPPED-ADDRESS of Test 1.
C10_Test3Outcome ==
    /\ fpc = "test3" =>
          req[Prober] = [addr |-> "primary",
                         attrs |-> OneAttr(ATTR_CHANGE_REQUEST, << 0, 0, 0, 2 >>)]
    /\ Len(ftest) = 3 =>
          /\ fpc = "done"
          /\ fres = CASE ftest[3].kind = "Ok" ->
                            OkF("AddressDependent", get_xor_mapped_address(ftest[1].msg))
                      [] ftest[3].kind = "TimeoutError" ->
                            OkF("AddressAndPortDependent", get_xor_mapped_address(ftest[1].msg))
                      [] OTHER -> ErrF(ftest[3].kind)
    /\ (fpc = "done" /\ fres.kind = "Ok") =>
          /\ fres.filtering_type # "Unknown"
          /\ fres.xor_mapped_addr # NoAddr
          /\ fres.xor_mapped_addr = get_xor_mapped_address(ftest[1].msg)

\* Test 3 timed out and the procedure returned AddressAndPortDependent with
\* the address 192.0.0.1:32853 decoded from Test 1's response.
C10_Witness ==
    /\ Len(ftest) = 3 /\ ftest[3].kind = "TimeoutError"
    /\ fres = OkF("AddressAndPortDependent", [ip |-> << 192, 0, 0, 1 >>, port |-> 32853])

\* Test 1 of the mapping procedure returned Ok with a message.
MapTest1Ok == Len(mtest) >= 1 /\ mtest[1].kind = "Ok"

\* The XOR-MAPPED-ADDRESS and the OTHER-ADDRESS of Test 1's response.
MapXma1 == get_xor_mapped_address(mtest[1].msg)
MapOther1 == get_other_address(mtest[1].msg)

\* The procedure made exactly one binding request: one transaction id drawn,
\* one datagram handed to the socket.
OneBindingRequest == nextTid = 2 /\ Cardinality(sent) = 1

\* C11 as stated: if Test 1's XOR-MAPPED-ADDRESS equals a local interface
\* address the procedure returns NoNAT at once, having sent exactly one
\* binding request.
C11_NoNATImmediately ==
    (MapTest1Ok /\ MapXma1 # NoAddr /\ MapXma1.ip \in LocalIps)
    => /\ mpc = "done"
       /\ mres.kind = "Ok" /\ mres.mapping_type = "NoNAT"
       /\ OneBindingRequest

\* C11, amended: if Test 1's response carries an OTHER-ADDRESS and its
\* XOR-MAPPED-ADDRESS equals a local interface address (of either family), the
\* procedure returns NoNAT at once with that address as Test 1's, having sent
\* exactly one binding request; without an OTHER-ADDRESS it returns
\* NotSupportedError instead, also after one binding request.
C11_NoNATWithOtherAddress ==
    (MapTest1Ok /\ MapXma1 # NoAddr /\ MapXma1.ip \in LocalIps)
    => /\ mpc = "done"
       /\ OneBindingRequest
       /\ IF MapOther1 # NoAddr
          THEN mres = OkM([EmptyMappingResult EXCEPT
                              !.mapping_type = "NoNAT",
                              !.test1_xor_mapped_addr = MapXma1])
          ELSE mres = ErrM("NotSupportedError", "OTHER-ADDRESS")

\* The procedure returned NoNAT for the IPv6 interface address ::1.
C11_Witness ==
    /\ mpc = "done" /\ mres.kind = "Ok" /\ mres.mapping_type = "NoNAT"
    /\ Len(mres.test1_xor_mapped_addr.ip) = 16
    /\ MapOther1 # NoAddr

\* C12 as stated: when Test 1 succeeds with a mapped address, IPv4 or IPv6,
\* that equals no local interface address, Test 2 is sent to the OTHER-ADDRESS
\* endpoint; and when Test 2's XOR-MAPPED-ADDRESS equals Test 1's the
\* procedure returns EndpointIndependent without a Test 3.
C12_Test2ToOtherAddress ==
    (MapTest1Ok /\ MapOther1 # NoAddr /\ MapXma1 # NoAddr /\ MapXma1.ip \notin LocalIps)
    => /\ Len(mtest) = 1 =>
             /\ mpc = "test2"
             /\ req[Prober] = [addr |-> MapOther1, attrs |-> NoAttrs]
       /\ (Len(mtest) >= 2 /\ mtest[2].kind = "Ok"
             /\ get_xor_mapped_address(mtest[2].msg) = MapXma1)
          => /\ mpc = "done"
             /\ mres.kind = "Ok" /\ mres.mapping_type = "EndpointIndependent"
             /\ nextTid = NumProbes

\* The mapped addresses of Test 2's and Test 3's responses.
MapXma2 == get_xor_mapped_address(mtest[2].msg)
MapXma3 == get_xor_mapped_address(mtest[3].msg)

\* C13: when Test 2's mapped address differs from Test 1's, Test 3 is sent to
\* the primary server IP and the port of OTHER-ADDRESS; a response to it gives
\* AddressDependent when its XOR-MAPPED-ADDRESS equals Test 2's and
\* AddressAndPortDependent when it does not, with the three addresses recorded.
C13_Test3Outcome ==
    (Len(mtest) >= 2 /\ mtest[2].kind = "Ok" /\ MapXma2 # NoAddr /\ MapXma2 # MapXma1)
    => /\ Len(mtest) = 2 =>
             /\ mpc = "test3"
             /\ req[Prober] = [addr |-> [ip |-> PrimaryAddr.ip, port |-> MapOther1.port],
                               attrs |-> NoAttrs]
       /\ (Len(mtest) = 3 /\ mtest[3].kind = "Ok" /\ MapXma3 # NoAddr)
          => /\ mpc = "done"
             /\ mres = [kind |-> "Ok", feature |-> "",
                        mapping_type |-> IF MapXma3 = MapXma2
                                         THEN "AddressDependent"
                                         ELSE "AddressAndPortDependent",
                        test1_xor_mapped_addr |-> MapXma1,
                        test2_xor_mapped_addr |-> MapXma2,
                        test3_xor_mapped_addr |-> MapXma3]

\* Test 3 was sent to 198.51.100.1:3479 and its response carried the mapped
\* address of Test 2: AddressDependent.
C13_Witness ==
    /\ Len(mtest) = 3 /\ mpc = "done"
    /\ mres.kind = "Ok" /\ mres.mapping_type = "AddressDependent"
    /\ mres.test2_xor_mapped_addr # mres.test1_xor_mapped_addr
    /\ \E d \in sent : d.tid = NumProbes /\ d.addr = [ip |-> << 198, 51, 100, 1 >>, port |-> 3479]

\* The attributes Test 1's response lacks, by name.
MapMissing1 ==
    (IF ATTR_XOR_MAPPED_ADDRESS \in DOMAIN mtest[1].msg.attrs THEN {} ELSE {"XOR-MAPPED-ADDRESS"})
    \cup (IF ATTR_OTHER_ADDRESS \in DOMAIN mtest[1].msg.attrs THEN {} ELSE {"OTHER-ADDRESS"})

\* C14: if Test 1's response lacks XOR-MAPPED-ADDRESS or OTHER-ADDRESS, the
\* procedure returns NotSupportedError naming an attribute that is missing,
\* and makes no further binding request.
C14_MissingAttribute ==
    (MapTest1Ok /\ MapMissing1 # {})
    => /\ mpc = "done"
       /\ mres.kind = "NotSupportedError"
       /\ mres.feature \in MapMissing1
       /\ OneBindingRequest

\* Test 1's response had an OTHER-ADDRESS and no XOR-MAPPED-ADDRESS.
C14_Witness ==
    /\ MapTest1Ok /\ MapMissing1 = {"XOR-MAPPED-ADDRESS"}
    /\ mres = ErrM("NotSupportedError", "XOR-MAPPED-ADDRESS")

\* C15 as stated: for every Message M, of any class, any method and any
\* attribute set, the empty set and unknown attribute codes included,
\* Message::from_raw(M.to_raw()) succeeds and equals M.
C15_RoundTrip ==
    cmode = "roundtrip" => cdec = OkMessage(cmsg)

\* Bit i of the natural n.
Bit(n, i) == (n \div (2 ^ i)) % 2

\* The u16 k has no bit outside the method mask 0x3EEF: bits 4, 8, 14 and 15
\* are clear.
InMethodMask(k) == \A i \in {4, 8, 14, 15} : Bit(k, i) = 0

\* C16 as stated: for every class of the four and every method, Binding or
\* Unknown(k), decoding the encoded message type gives back the class and the
\* method.
C16_TypeRoundTrip ==
    (cmode = "roundtrip" /\ cmsg.header.class \in NamedClasses)
    => /\ cdec.kind = "Ok"
       /\ cdec.msg.header.class = cmsg.header.class
       /\ cdec.msg.header.method = cmsg.header.method

\* C16, amended: for every class of the four and every method that is Binding
\* or Unknown(k) with k inside the mask 0x3EEF and other than 0x0001, decoding
\* the encoded message type gives back the class and the method.
C16_TypeRoundTripInMask ==
    (/\ cmode = "roundtrip"
     /\ cmsg.header.class \in NamedClasses
     /\ \/ cmsg.header.method = Binding
        \/ /\ InMethodMask(cmsg.header.method[2])
           /\ cmsg.header.method[2] # METHOD_BINDING)
    => /\ cdec.kind = "Ok"
       /\ cdec.msg.header.class = cmsg.header.class
       /\ cdec.msg.header.method = cmsg.header.method

\* An ErrorResponse of method Unknown(0x3EEF) came back from the round trip.
C16_Witness ==
    /\ cmode = "roundtrip"
    /\ cmsg.header.class = << "ErrorResponse", 0 >>
    /\ cmsg.header.method = UnknownKind(16111)
    /\ cdec.kind = "Ok"
    /\ cdec.msg.header.class = << "ErrorResponse", 0 >>
    /\ cdec.msg.header.method = UnknownKind(16111)

\* C17: Message::from_raw returns ParseError for a buffer of fewer than 20
\* bytes, for one whose attribute section ends in fewer than 4 bytes where an
\* attribute's type and length are due, and for one in which an attribute
\* declares more value bytes than follow.
C17_TruncatedIsParseError ==
    (cmode = "decoded"
       /\ cbuf \in ShortInputs \cup PartialAttrHeaderInputs \cup ShortValueInputs)
    => cdec = ParseError

\* A buffer whose second attribute declares 8 value bytes and carries 7 was
\* refused.
C17_Witness ==
    /\ cmode = "decoded"
    /\ cbuf = RawHeader \o << 128, 34, 0, 1, 97 >>
                        \o << 0, 32, 0, 8, 0, 1, 161, 71, 225, 18, 164 >>
    /\ cbuf \in ShortValueInputs
    /\ cdec = ParseError

RECURSIVE XorByBits(_, _, _)
\* The exclusive or of the low w bits of a and b, bit by bit.
XorByBits(a, b, w) ==
    IF w = 0 THEN 0
    ELSE XorByBits(a, b, w - 1) + (2 ^ (w - 1)) * ((Bit(a, w - 1) + Bit(b, w - 1)) % 2)

\* The port and the address that an IPv4 XOR-MAPPED-ADDRESS value stands for:
\* xport XOR 0x2112, xaddress XOR 21 12 A4 42 byte by byte.
XorMappedIPv4(v) ==
    [ip |-> << XorByBits(v[5], 33, 8), XorByBits(v[6], 18, 8),
               XorByBits(v[7], 164, 8), XorByBits(v[8], 66, 8) >>,
     port |-> XorByBits(v[3] * 256 + v[4], 8466, 16)]

\* get_xor_mapped_address gave, for the IPv4 value of its input, that port and
\* address, and gives the same under every other transaction id.
XorMappedIPv4Decoded ==
    /\ cxma = XorMappedIPv4(cxin.attrs[ATTR_XOR_MAPPED_ADDRESS])
    /\ \A t \in Tids : get_xor_mapped_address([cxin EXCEPT !.tid = t]) = cxma

\* C18 as stated: for every IPv4 XOR-MAPPED-ADDRESS value get_xor_mapped_address
\* returns port = xport XOR 0x2112 and address = xaddress XOR 0x2112A442,
\* whatever the transaction id; the value 00 01 A1 47 E1 12 A4 43 decodes to
\* 192.0.2.1:32853.
C18_XorMappedExample ==
    cmode = "xma_done"
    => /\ XorMappedIPv4Decoded
       /\ cxin.attrs[ATTR_XOR_MAPPED_ADDRESS] = << 0, 1, 161, 71, 225, 18, 164, 67 >>
          => cxma = [ip |-> << 192, 0, 2, 1 >>, port |-> 32853]

\* C18, amended: for every IPv4 XOR-MAPPED-ADDRESS value get_xor_mapped_address
\* returns port = xport XOR 0x2112 and address = xaddress XOR 0x2112A442,
\* whatever the transaction id; the value 00 01 A1 47 E1 12 A4 43 decodes to
\* 192.0.0.1:32853.
C18_XorMappedIPv4 ==
    cmode = "xma_done"
    => /\ XorMappedIPv4Decoded
       /\ cxin.attrs[ATTR_XOR_MAPPED_ADDRESS] = << 0, 1, 161, 71, 225, 18, 164, 67 >>
          => cxma = [ip |-> << 192, 0, 0, 1 >>, port |-> 32853]

\* The value 00 01 A1 47 E1 12 A4 43 was decoded, in a message whose
\* transaction id is not all zero, to 192.0.0.1:32853.
C18_Witness ==
    /\ cmode = "xma_done"
    /\ cxin.tid = NumProbes
    /\ cxin.attrs[ATTR_XOR_MAPPED_ADDRESS] = << 0, 1, 161, 71, 225, 18, 164, 67 >>
    /\ cxma = [ip |-> << 192, 0, 0, 1 >>, port |-> 32853]

\* C19: the encoding puts, after each attribute's value bytes, zeros up to
\* the next 4-byte boundary, so the attribute section of to_raw's output is
\* the padded section (in the order the attributes were written) and every
\* attribute starts at a multiple of 4 from the end of the header.
C19_EncodePads ==
    cmode = "encoded"
    => \E o \in IterOrders(CodecAttributesOf(cmsg)) :
          SliceFrom(cenc, HEADER_BYTE_SIZE) = PaddedAttrs(CodecAttributesOf(cmsg), o)

\* C20: the decoding skips the pad after each value: a message with an
\* attribute whose value length is not a multiple of 4, padded and followed by
\* another attribute, decodes to exactly those two attributes with their
\* unpadded values.
C20_DecodeSkipsPad ==
    cmode = "padded_decoded"
    => \A o \in IterOrders(CodecAttributesOf(cmsg)) :
          (cbuf = PaddedRaw(cmsg, o) /\ Len(o) = 2
             /\ Len(cmsg.attributes.map[o[1]]) % 4 # 0)
          => /\ cdec.kind = "Ok"
             /\ cdec.msg.attributes = cmsg.attributes

\* C21: every message Message::from_raw accepts has a header length field
\* equal to the number of attribute-section bytes present in the buffer (a
\* buffer whose length field disagrees is refused with ParseError).
C21_LengthConsistent ==
    (cmode = "decoded" /\ cdec.kind = "Ok")
        => cdec.msg.header.length = Len(cbuf) - HEADER_BYTE_SIZE

\* C22: a datagram that parses and whose transaction id is registered is
\* taken up as Ok(message) for the sink of that id alone, whatever its class
\* and attributes; the receive task queues it as it is, and the call whose
\* sink holds it first returns that very Ok(message): an ErrorResponse is
\* never turned into an Err result.
C22_AnyClassVerbatim ==
    [][ /\ \A d \in Arrivable :
              (d.len >= HEADER_BYTE_SIZE /\ d.msg.tid \in transactions
                 /\ ReceiverSocketRecv(d))
              => (rxpc' = "deliver" /\ rxEvent' = Ok(d.msg) /\ rxTodo' = {d.msg.tid})
        /\ \A t \in Tids :
              (rxEvent.kind = "Ok" /\ RxAlive(t) /\ ReceiverSend(t))
              => chan'[t] = Append(chan[t], Ok(rxEvent.msg))
        /\ \A c \in Callers : \A cl \in Classes : \A at \in ResponseAttrs :
              (Awaiting(c) /\ chan[cur[c]] # << >>
                 /\ Head(chan[cur[c]]) = Ok(Msg(cur[c], cl, at)) /\ pc'[c] = "done")
              => res'[c] = Ok(Msg(cur[c], cl, at))
      ]_vars

\* One call returned Ok with an ErrorResponse that carries its
\* XOR-MAPPED-ADDRESS attribute, the other Ok with a message of class Request.
C22_Witness ==
    /\ pc["A"] = "done"
    /\ res["A"] = Ok(Msg(cur["A"], "ErrorResponse", OneAttr(ATTR_XOR_MAPPED_ADDRESS, XmaIPv4)))
    /\ pc["B"] = "done"
    /\ res["B"] = Ok(Msg(cur["B"], "Request", NoAttrs))

\* The datagrams of transaction t handed to the socket.
SentOf(t) == {d \in sent : d.tid = t}

\* C23: a binding_request call hands at most one datagram to the socket:
\* only the send step of a call adds a datagram, no transaction id ever has
\* two, and a call's return (response, timeout or error) sends nothing; a
\* call that polls its sink and finds results there returns the first of them.
C23_NoRetransmission ==
    [][ /\ \A t \in Tids : Cardinality({d \in sent' : d.tid = t}) <= 1
        /\ sent' # sent =>
              \E c \in Callers :
                  /\ pc[c] = "send" /\ pc'[c] = "await"
                  /\ sent' \ sent = {[tid |-> cur[c], addr |-> req[c].addr,
                                      attrs |-> req[c].attrs, seq |-> 0]}
        /\ \A c \in Callers :
              (pc[c] \in {"send", "await"} /\ pc'[c] = "done")
              => /\ sent' = sent
                 /\ (Awaiting(c) /\ chan[cur[c]] # << >>) => res'[c] = Head(chan[cur[c]])
      ]_vars

\* One call timed out and the other returned a response; one datagram was
\* sent for each.
C23_Witness ==
    /\ pc["A"] = "done" /\ res["A"] = Err("TimeoutError")
    /\ pc["B"] = "done" /\ res["B"].kind = "Ok"
    /\ Cardinality(SentOf(cur["A"])) = 1 /\ Cardinality(SentOf(cur["B"])) = 1

\* C24: after a binding_request returned TimeoutError, a response carrying
\* its transaction id that the receive task reads later finds no sink in the
\* table and is dropped: nothing is taken up for delivery, and the sinks and
\* the callers' results are left as they are.
C24_LateResponseFindsNoSink ==
    [][ \A c \in Callers : \A d \in Arrivable :
          (pc[c] = "done" /\ res[c] = Err("TimeoutError")
             /\ d.len >= HEADER_BYTE_SIZE /\ d.msg.tid = cur[c]
             /\ ReceiverSocketRecv(d))
          => /\ cur[c] \notin transactions
             /\ rxTodo' = {} /\ rxEvent' = Unsolicited
             /\ UNCHANGED << chan, res, pc >>
      ]_vars

C26_DeliveryNeverBlocks ==
    /\ (rxpc \in {"deliver", "flush"}) ~> (rxpc \in {"select", "exited"})
    /\ [][ \A t \in Tids :
             (~ RxAlive(t) /\ ReceiverSend(t)) => (chan' = chan /\ rxpc' # "flush")
         ]_vars

\* In one broadcast the receive task has dropped the send to the stale
\* entry of a call that had timed out, and is parked in the send to the sink
\* of a call that has not returned.
C26_Witness ==
    /\ rxpc = "flush"
    /\ \E c \in Callers :
          /\ pc[c] = "done" /\ res[c] = Err("TimeoutError")
          /\ cur[c] \in rxSnap \ rxTodo
          /\ \E b \in Callers \ {c} : rxCur = cur[b] /\ RxAlive(cur[b])

\* C27: when the socket's receive returns an I/O error, the receive task
\* takes every sink registered at that moment and delivers Err(IOError) to
\* each; when the broadcast is through, every call of those that has not
\* returned holds IOError as the one result in its sink, and a call polling a
\* sink that holds it first returns IOError; the task, unless the client was
\* dropped, goes on to the next read and does not exit.
C27_IOErrorBroadcast ==
    [][ /\ ReceiverSocketError
            => /\ rxSnap' = transactions /\ rxTodo' = transactions
               /\ transactions # {} => (rxpc' = "deliver" /\ rxEvent' = Err("IOError"))
               /\ transactions = {} => rxpc' = LoopTop
        /\ (rxEvent = Err("IOError") /\ rxpc \in {"deliver", "flush"}
              /\ rxpc' \notin {"deliver", "flush"})
            => /\ rxpc' = (IF running THEN "select" ELSE "exited")
               /\ \A c \in Callers :
                    (cur[c] \in rxSnap /\ pc'[c] \in {"send", "await"})
                    => chan'[cur[c]] = << Err("IOError") >>
        /\ \A c \in Callers :
              (Awaiting(c) /\ chan[cur[c]] # << >> /\ Head(chan[cur[c]]) = Err("IOError")
                 /\ pc'[c] = "done")
              => res'[c] = Err("IOError")
      ]_vars

\* Both outstanding calls returned IOError, each after its datagram was sent,
\* and the receive task of the live client reads on.
C27_Witness ==
    /\ running /\ rxpc = "select"
    /\ \A c \in Callers :
          pc[c] = "done" /\ res[c] = Err("IOError") /\ SentOf(cur[c]) # {}

\* Test i was the last binding_request begun and no datagram of a later one
\* was sent.
LastRequestWas(i) == nextTid = i + 1 /\ \A d \in sent : d.tid <= i

\* C28: a timeout or any other error of binding_request in filtering Test 1
\* or in mapping Test 1, 2 or 3 ends the procedure: it returns that error and
\* begins no further binding request. Only in filtering Tests 2 and 3 does a
\* TimeoutError lead on: Test 2's to Test 3, Test 3's to the classification
\* AddressAndPortDependent; any other error there is returned as it is.
C28_ErrorsPropagate ==
    /\ (Len(ftest) >= 1 /\ ftest[1].kind # "Ok")
          => (fpc = "done" /\ fres = ErrF(ftest[1].kind) /\ LastRequestWas(1))
    /\ \A i \in 1..Len(mtest) :
          mtest[i].kind # "Ok"
          => (i = Len(mtest) /\ mpc = "done" /\ mres = ErrM(mtest[i].kind, "")
                /\ LastRequestWas(i))
    /\ \A i \in 2..Len(ftest) :
          CASE ftest[i].kind = "Ok" -> TRUE
            [] ftest[i].kind = "TimeoutError" ->
                  IF i = 2 THEN fpc \in {"test3", "done"} /\ (fpc = "done" => Len(ftest) = 3)
                  ELSE fpc = "done" /\ fres = OkF("AddressAndPortDependent", fxma)
            [] OTHER ->
                  i = Len(ftest) /\ fpc = "done" /\ fres = ErrF(ftest[i].kind)
                     /\ LastRequestWas(i)

\* Mapping Test 2 timed out: the procedure returned TimeoutError and began no
\* Test 3.
C28_Witness ==
    /\ Len(mtest) = 2 /\ mtest[1].kind = "Ok" /\ mtest[2].kind = "TimeoutError"
    /\ mpc = "done" /\ mres = ErrM("TimeoutError", "")
    /\ LastRequestWas(2)

\* The attributes check_nat_filtering_behavior puts in the request of Test i.
FilteringAttrs(i) ==
    CASE i = 1 -> NoAttrs
      [] i = 2 -> OneAttr(ATTR_CHANGE_REQUEST, << 0, 0, 0, 6 >>)
      [] OTHER -> OneAttr(ATTR_CHANGE_REQUEST, << 0, 0, 0, 2 >>)

\* C29: every datagram check_nat_filtering_behavior sends goes to the primary
\* server endpoint it was given: Test 1 with no attributes, Test 2 with
\* CHANGE-REQUEST 0x06, Test 3 with CHANGE-REQUEST 0x02. On a socket that
\* sent nothing before, no datagram has gone anywhere else while a test waits.
C29_FilteringSendsToPrimary ==
    /\ \A d \in sent :
          d.tid \in 1..NumProbes /\ d.addr = "primary" /\ d.attrs = FilteringAttrs(d.tid)
    /\ fpc \in {"test1", "test2", "test3"} => req[Prober].addr = "primary"

\* Test 3 waits for its response; the three datagrams went to the primary
\* endpoint.
C29_Witness ==
    /\ fpc = "test3" /\ Awaiting(Prober)
    /\ sent = { [tid |-> i, addr |-> "primary", attrs |-> FilteringAttrs(i), seq |-> 0] :
                  i \in 1..NumProbes }

\* C30: with two Clients over one socket, each with a binding_request
\* outstanding, a response read from the socket is taken up for the sink of
\* the call whose transaction id it carries, whichever Client's receive task
\* reads it.
C30_SharedSocketDelivery ==
    [][ \A k \in Callers : \A c \in Callers : \A d \in Arrivable :
          (/\ \A b \in Callers : Awaiting(b) /\ cur[b] \in transactions
           /\ d.len >= HEADER_BYTE_SIZE /\ d.msg.tid = cur[c]
           /\ SharedSocketRecv(k, d))
          => (rxpc' = "deliver" /\ rxTodo' = {cur[c]} /\ rxEvent' = Ok(d.msg))
      ]_vars

\* Test n of the mapping procedure was answered: it returned Ok.
MapAnswered(n) == Len(mtest) >= n /\ mtest[n].kind = "Ok"

\* C31: an Ok result of check_nat_mapping_behavior never has mapping_type
\* Unknown, and its testN_xor_mapped_addr is set, to the XOR-MAPPED-ADDRESS of
\* Test N's response, exactly when Test N was answered: NoNAT after Test 1
\* alone, EndpointIndependent after Tests 1 and 2 with equal addresses,
\* AddressDependent and AddressAndPortDependent after all three.
C31_OkResultAddresses ==
    mres.kind = "Ok" =>
       /\ mpc = "done"
       /\ mres.mapping_type # "Unknown"
       /\ mres.test1_xor_mapped_addr # NoAddr <=> MapAnswered(1)
       /\ mres.test2_xor_mapped_addr # NoAddr <=> MapAnswered(2)
       /\ mres.test3_xor_mapped_addr # NoAddr <=> MapAnswered(NumProbes)
       /\ MapAnswered(1) /\ mres.test1_xor_mapped_addr = MapXma1
       /\ MapAnswered(2) => mres.test2_xor_mapped_addr = MapXma2
       /\ MapAnswered(NumProbes) => mres.test3_xor_mapped_addr = MapXma3
       /\ CASE mres.mapping_type = "NoNAT" -> Len(mtest) = 1
            [] mres.mapping_type = "EndpointIndependent" ->
                  /\ Len(mtest) = 2
                  /\ mres.test2_xor_mapped_addr = mres.test1_xor_mapped_addr
            [] mres.mapping_type = "AddressDependent" ->
                  /\ Len(mtest) = NumProbes
                  /\ mres.test3_xor_mapped_addr = mres.test2_xor_mapped_addr
            [] mres.mapping_type = "AddressAndPortDependent" ->
                  /\ Len(mtest) = NumProbes
                  /\ mres.test3_xor_mapped_addr # mres.test2_xor_mapped_addr
            [] OTHER -> FALSE

\* The procedure returned AddressAndPortDependent with the three addresses
\* set, the second unlike the first and the third unlike the second.
C31_Witness ==
    /\ mpc = "done" /\ mres.kind = "Ok"
    /\ mres.mapping_type = "AddressAndPortDependent"
    /\ mres.test1_xor_mapped_addr # NoAddr
    /\ mres.test2_xor_mapped_addr # mres.test1_xor_mapped_addr
    /\ mres.test3_xor_mapped_addr \notin {NoAddr, mres.test2_xor_mapped_addr}

\* The transaction id in the header bytes of a datagram.
WireTid(w) == w.buf[HEADER_BYTE_SIZE]

\* C32: the receive task matches a datagram to a sink by transaction id
\* alone: a datagram long enough for a header whose id is registered is taken
\* up as Ok for the sink of that id, whatever address it came from and
\* whatever its magic-cookie bytes are, and the call that finds it first in
\* its sink returns it.
C32_MatchByTransactionIdAlone ==
    [][ /\ \A w \in WireArrivable :
              (rxpc = "select"
                 /\ Len(w.buf) >= HEADER_BYTE_SIZE /\ WireTid(w) \in transactions
                 /\ WireSocketRecv(w))
              => /\ rxpc' = "deliver" /\ rxTodo' = {WireTid(w)}
                 /\ rxEvent'.kind = "Ok" /\ rxEvent'.msg.tid = WireTid(w)
        /\ (Awaiting(Prober) /\ chan[cur[Prober]] # << >>
              /\ Head(chan[cur[Prober]]).kind = "Ok" /\ pc'[Prober] = "done")
           => res'[Prober] = Head(chan[cur[Prober]])
      ]_vars

\* Test 2, whose request carried CHANGE-REQUEST and so was answered from an
\* alternate address, returned Ok with a response whose magic-cookie bytes
\* were zero: EndpointIndependent.
C32_Witness ==
    /\ Len(ftest) = 2 /\ ftest[2].kind = "Ok" /\ ftest[2].msg.tid = 2
    /\ fpc = "done" /\ fres.kind = "Ok" /\ fres.filtering_type = "EndpointIndependent"
    /\ cdec.kind = "Ok" /\ Len(cbuf) >= HEADER_BYTE_SIZE
    /\ cbuf[HEADER_BYTE_SIZE] = 2 /\ SubSeq(cbuf, 5, 8) = << 0, 0, 0, 0 >>

\* C33: on every message Message::from_raw accepts, the attribute decoders
\* (get_xor_mapped_address, get_mapped_address, get_other_address,
\* get_response_origin, get_error_code) return a value or None and never
\* abort, however short the attribute's value is.
C33_DecodersNeverAbort ==
    cmode = "attr_done" => cxma # Panic

=============================================================================
